---- MODULE Spec2Model ----
(***************************************************************************)
(* Metadata flattening, vector-store repository and fact conversion of the *)
(* AIM repository (src/core/vectorstore).                                  *)
(*                                                                         *)
(* Python values are tagged tuples: <<"str", s>>, <<"int", n>>,            *)
(* <<"float", n>>, <<"none">>.  An Optional[...] field is <<>> for None    *)
(* and <<x>> for the object x.  Flat maps (Python dicts with string keys)  *)
(* are functions whose domain is a set of strings.                         *)
(***************************************************************************)
EXTENDS Integers, Sequences, FiniteSets, TLC

VARIABLES
    contents,    \* the ContentsMetadata under construction / being flattened
    source,      \* the SourceMetadata whose collection metadata is taken
    flat_meta,   \* <<>> or <<result of ContentsMetadata.to_searchable_metadata()>>
    coll_meta,   \* <<>> or <<result of SourceMetadata.to_collection_metadata()>>
    collection,  \* the records of the Chroma collection behind a ChromaRepository
    last_call,   \* the latest ChromaRepository call: its arguments and outcome
    upserted,    \* per id: the document and metadata last written and not deleted
    pl_meta,     \* <<>> or <<the Metadata aggregate last converted to facts>>
    facts,       \* the list returned by the last convert_metadata_to_facts
    kb,          \* the clauses asserted into the rule engine, in assertion order
    kb_dynamic,  \* whether the loaded knowledge base declares composes_contents/2
    pl_call,     \* the latest PrologRepository call and its outcome
    composed,    \* the <<Metadata id, ContentsMetadata id>> links handed to insert_facts
    gen_in,      \* the CustomClassGenerator call made: its name and arguments
    gen_out,     \* <<>> or <<the outcome of that call>>
    lists,       \* the Python list objects held by Metadata roots, by identity
    roots,       \* the Metadata objects constructed, in construction order
    expected,    \* per root: the constructor's lists followed by what it added
    clients,     \* ApiKeyManager.clients
    current_index, \* ApiKeyManager.current_index
    key_call,    \* the latest ApiKeyManager call and its outcome
    streak,      \* the clients returned by the get_next_client calls made since
                 \* the last add_client or set_client_by_index
    GENERATORS,  \* the module-level registry of server.py: name -> generator
    http         \* the latest request served and its response

flattenVars == <<contents, source, flat_meta, coll_meta>>
chromaVars == <<collection, last_call, upserted>>
prologVars == <<pl_meta, facts, kb, kb_dynamic, pl_call, composed>>
coerceVars == <<gen_in, gen_out>>
rootVars == <<lists, roots, expected>>
keyVars == <<clients, current_index, key_call, streak>>
serverVars == <<GENERATORS, http>>
otherVars == <<rootVars, keyVars, serverVars>>
vars == <<flattenVars, chromaVars, prologVars, coerceVars, otherVars>>

-----------------------------------------------------------------------------
(* Bounds of the model *)

MaxNodes == 3    \* CustomClass nodes in one tree
MaxAttrs == 2    \* Attributes in one tree
MaxBatch == 2    \* length of the lists handed to upsert_chunks
MaxDelete == 1   \* length of the ids list handed to delete_chunks
MaxQueries == 2  \* length of the query_texts list handed to query_collection
MaxK == 2        \* largest k handed to query_collection

-----------------------------------------------------------------------------
(* Python values *)

SV(s) == <<"str", s>>
IV(n) == <<"int", n>>
FV(n) == <<"float", n>>
NoneV == <<"none">>

None == <<>>
Some(x) == <<x>>
\* Python truthiness of an Optional object field: None is falsy, an instance
\* of a class without __bool__/__len__ is truthy.
Truthy(opt) == opt # None

\* isinstance(v, (str, int, float, bool))
IsScalar(v) == v[1] \in {"str", "int", "float", "bool"}

\* str(v) for the values of the model
PyStr(v) ==
    CASE v[1] = "none" -> "None"
      [] v[1] = "str" -> v[2]
      [] v[1] = "int" -> ToString(v[2])
      [] v[1] = "float" -> ToString(v[2]) \o ".0"
      [] v[1] = "bool" -> IF v[2] THEN "True" ELSE "False"
      [] v[1] = "inf" -> "inf"
      [] OTHER -> "?"

\* float(x) of a number
PyFloat(n) == FV(n)

\* f"{x}" of a number held by the model as an integer
NumStr(n) == ToString(n)

\* datetime values: seconds since the epoch
DateTime(n) == [kind |-> "datetime", epoch |-> n]
timestamp(dt) == FV(dt.epoch)
isoformat(dt) == SV("iso:" \o ToString(dt.epoch))

\* d[k] = v on a dict
Put(d, k, v) == [x \in (DOMAIN d) \cup {k} |-> IF x = k THEN v ELSE d[x]]

RECURSIVE JoinStr(_, _)
\* sep.join(seq)
JoinStr(seq, sep) ==
    IF Len(seq) = 0 THEN ""
    ELSE IF Len(seq) = 1 THEN seq[1]
    ELSE seq[1] \o sep \o JoinStr(Tail(seq), sep)

\* generate_short_id(prefix): prefix, "_" and eight hex digits of a fresh uuid4.
\* Only the freshness of the digits matters: the model takes for them the
\* position (index path) the object is created at, which no other object of
\* the tree has.
generate_short_id(prefix, where) ==
    prefix \o "_" \o JoinStr([i \in DOMAIN where |-> ToString(where[i])], ".")

-----------------------------------------------------------------------------
(* Extent variants *)

GeoExtentString(place_name, description) ==
    [kind |-> "GeoExtentString", place_name |-> place_name, description |-> description]
GeoExtentPoint(lat, lon) ==
    [kind |-> "GeoExtentPoint", lat |-> lat, lon |-> lon]
GeoExtentBoundingbox(north, west, south, east) ==
    [kind |-> "GeoExtentBoundingbox", north |-> north, west |-> west,
     south |-> south, east |-> east]
GeoExtentSurface(wkt) ==
    [kind |-> "GeoExtentSurface", wkt |-> wkt]

GeoExtentString_to_dict(ge) ==
    [place_name |-> SV(ge.place_name), description |-> SV(ge.description)]

\* a to_dict that leaves the WKT out
GeoExtentPoint_to_dict_NoWkt(ge) ==
    [lat |-> FV(ge.lat), lon |-> FV(ge.lon)]

GeoExtentPoint_to_dict(ge) ==
    [lat |-> FV(ge.lat), lon |-> FV(ge.lon),
     wkt |-> SV("POINT(" \o NumStr(ge.lon) \o " " \o NumStr(ge.lat) \o ")")]

\* a to_dict whose ring is not closed
GeoExtentBoundingbox_to_dict_Open(ge) ==
    [north |-> FV(ge.north), west |-> FV(ge.west),
     south |-> FV(ge.south), east |-> FV(ge.east),
     wkt |-> SV("POLYGON((" \o NumStr(ge.west) \o " " \o NumStr(ge.north) \o ", "
                  \o NumStr(ge.east) \o " " \o NumStr(ge.north) \o ", "
                  \o NumStr(ge.east) \o " " \o NumStr(ge.south) \o ", "
                  \o NumStr(ge.west) \o " " \o NumStr(ge.south) \o "))")]

GeoExtentBoundingbox_to_dict(ge) ==
    [north |-> FV(ge.north), west |-> FV(ge.west),
     south |-> FV(ge.south), east |-> FV(ge.east),
     wkt |-> SV("POLYGON((" \o NumStr(ge.west) \o " " \o NumStr(ge.north) \o ", "
                  \o NumStr(ge.east) \o " " \o NumStr(ge.north) \o ", "
                  \o NumStr(ge.east) \o " " \o NumStr(ge.south) \o ", "
                  \o NumStr(ge.west) \o " " \o NumStr(ge.south) \o ", "
                  \o NumStr(ge.west) \o " " \o NumStr(ge.north) \o "))")]

GeoExtentSurface_to_dict(ge) ==
    [wkt |-> SV(ge.wkt)]

\* ge.to_dict(), dispatched on the class of ge
Geo_to_dict(ge) ==
    CASE ge.kind = "GeoExtentString" -> GeoExtentString_to_dict(ge)
      [] ge.kind = "GeoExtentPoint" -> GeoExtentPoint_to_dict(ge)
      [] ge.kind = "GeoExtentBoundingbox" -> GeoExtentBoundingbox_to_dict(ge)
      [] ge.kind = "GeoExtentSurface" -> GeoExtentSurface_to_dict(ge)

TemporalExtentBetaDistribution(description, start_instant, expected_instant, end_instant, alpha, beta) ==
    [kind |-> "TemporalExtentBetaDistribution", description |-> description,
     start_instant |-> start_instant, expected_instant |-> expected_instant,
     end_instant |-> end_instant, alpha |-> alpha, beta |-> beta]
TemporalExtentPeriod(date_from, date_expected, date_to, description) ==
    [kind |-> "TemporalExtentPeriod", description |-> description,
     date_from |-> date_from, date_expected |-> date_expected, date_to |-> date_to]
TemporalExtentString(date_from, date_expected, date_to, description) ==
    [kind |-> "TemporalExtentString", description |-> description,
     date_from |-> date_from, date_expected |-> date_expected, date_to |-> date_to]
TemporalExtentNumber(date_from, date_expected, date_to, description) ==
    [kind |-> "TemporalExtentNumber", description |-> description,
     date_from |-> date_from, date_expected |-> date_expected, date_to |-> date_to]

\* te.to_dict(): every temporal variant lists its constructor fields
Temporal_to_dict(te) == [f \in (DOMAIN te) \ {"kind"} |-> te[f]]

-----------------------------------------------------------------------------
(* Hierarchical attribute tree *)

Attribute(id, key, value, datatype, description) ==
    [id |-> id, key |-> key, value |-> value, datatype |-> datatype,
     description |-> description, children |-> <<>>]

CustomClass(id, classname) ==
    [id |-> id, classname |-> classname, attributes |-> <<>>, children |-> <<>>]

\* c.add_attribute(attr)
add_attribute(c, attr) == [c EXCEPT !.attributes = Append(@, attr)]

\* c.children.append(child): the children list handed to the constructor
add_child(c, child) == [c EXCEPT !.children = Append(@, child)]

RECURSIVE ApplyAt(_, _, _)
\* the tree c with node-operation op applied to the node reached from c along
\* path, a sequence of indexes into children; op is 1 (add_attribute) or
\* 2 (add_child) with its argument
ApplyAt(c, path, op) ==
    IF Len(path) = 0
    THEN IF op[1] = 1 THEN add_attribute(c, op[2]) ELSE add_child(c, op[2])
    ELSE [c EXCEPT !.children[Head(path)] = ApplyAt(@, Tail(path), op)]

RECURSIVE SumSeq(_)
SumSeq(s) == IF Len(s) = 0 THEN 0 ELSE Head(s) + SumSeq(Tail(s))

RECURSIVE NodeCount(_)
NodeCount(c) == 1 + SumSeq([i \in DOMAIN c.children |-> NodeCount(c.children[i])])

RECURSIVE AttrCount(_)
\* the sum of len(node.attributes) over the nodes of the tree
AttrCount(c) ==
    Len(c.attributes) + SumSeq([i \in DOMAIN c.children |-> AttrCount(c.children[i])])

RECURSIVE Paths(_)
\* the index paths of all nodes of the tree
Paths(c) ==
    {<<>>} \cup UNION {{<<i>> \o p : p \in Paths(c.children[i])} : i \in DOMAIN c.children}

RECURSIVE NodeAt(_, _)
NodeAt(c, path) ==
    IF Len(path) = 0 THEN c ELSE NodeAt(c.children[Head(path)], Tail(path))

RECURSIVE Attribute_to_dict(_)
Attribute_to_dict(a) ==
    [id |-> SV(a.id), key |-> SV(a.key), value |-> a.value,
     datatype |-> SV(a.datatype), description |-> SV(a.description),
     children |-> [i \in DOMAIN a.children |-> Attribute_to_dict(a.children[i])]]

RECURSIVE CustomClass_to_dict(_)
CustomClass_to_dict(c) ==
    [id |-> SV(c.id), classname |-> SV(c.classname),
     attributes |-> [i \in DOMAIN c.attributes |-> Attribute_to_dict(c.attributes[i])],
     children |-> [i \in DOMAIN c.children |-> CustomClass_to_dict(c.children[i])]]

-----------------------------------------------------------------------------
(* SourceMetadata *)

SourceMetadata(id, citation_id, reference_system_id, ate, age) ==
    [id |-> id, citation_id |-> citation_id,
     reference_system_id |-> reference_system_id,
     additional_temporal_extent |-> ate,
     additional_geographic_extent |-> age]

SourceMetadata_to_dict(src) ==
    LET ate == src.additional_temporal_extent
        age == src.additional_geographic_extent
    IN [id |-> src.id, citation_id |-> src.citation_id,
        reference_system_id |-> src.reference_system_id,
        additional_temporal_extent |->
            IF Truthy(ate) THEN Temporal_to_dict(ate[1]) ELSE NoneV,
        additional_geographic_extent |->
            IF Truthy(age) THEN Geo_to_dict(age[1]) ELSE NoneV]

\* the geographic branch of to_collection_metadata
SourceGeoFields(meta, age) ==
    IF ~Truthy(age) THEN meta
    ELSE LET ge == age[1] IN
      CASE ge.kind = "GeoExtentString" ->
             Put(Put(meta, "src_geo_type", SV("string")),
                 "src_geo_place", SV(ge.place_name))
        [] ge.kind = "GeoExtentPoint" ->
             Put(Put(Put(meta, "src_geo_type", SV("point")),
                 "src_geo_lat", PyFloat(ge.lat)),
                 "src_geo_lon", PyFloat(ge.lon))
        [] ge.kind = "GeoExtentBoundingbox" ->
             Put(Put(Put(Put(Put(meta, "src_geo_type", SV("bbox")),
                 "src_geo_north", PyFloat(ge.north)),
                 "src_geo_west", PyFloat(ge.west)),
                 "src_geo_south", PyFloat(ge.south)),
                 "src_geo_east", PyFloat(ge.east))
        [] ge.kind = "GeoExtentSurface" ->
             Put(Put(meta, "src_geo_type", SV("surface")),
                 "src_geo_wkt", SV(ge.wkt))
        [] OTHER -> meta

\* the temporal branch of to_collection_metadata
SourceTemporalFields(meta, ate) ==
    IF ~Truthy(ate) THEN meta
    ELSE LET te == ate[1] IN
      CASE te.kind = "TemporalExtentPeriod" ->
             Put(Put(Put(Put(meta, "temp_type", SV("period")),
                 "temp_period_from", timestamp(te.date_from)),
                 "temp_period_expected", timestamp(te.date_expected)),
                 "temp_period_to", timestamp(te.date_to))
        [] te.kind = "TemporalExtentString" ->
             Put(Put(Put(Put(meta, "src_temp_type", SV("string")),
                 "src_temp_str_from", SV(te.date_from)),
                 "src_temp_str_expected", SV(te.date_expected)),
                 "src_temp_str_to", SV(te.date_to))
        [] te.kind = "TemporalExtentNumber" ->
             Put(Put(Put(Put(meta, "src_temp_type", SV("number")),
                 "src_temp_num_from", PyFloat(te.date_from)),
                 "src_temp_num_expected", PyFloat(te.date_expected)),
                 "src_temp_num_to", PyFloat(te.date_to))
        [] te.kind = "TemporalExtentBetaDistribution" ->
             Put(Put(Put(Put(meta, "src_temp_type", SV("distribution")),
                 "src_temp_start", isoformat(te.start_instant)),
                 "src_temp_expected", isoformat(te.expected_instant)),
                 "src_temp_end", isoformat(te.end_instant))
        [] OTHER -> meta

\* the basic fields of to_collection_metadata
SourceBaseFields(src) ==
    [source_id |-> src.id, citation_id |-> src.citation_id,
     reference_system |-> src.reference_system_id,
     structured |-> <<"json", SourceMetadata_to_dict(src)>>]

to_collection_metadata(src) ==
    SourceTemporalFields(
        SourceGeoFields(SourceBaseFields(src), src.additional_geographic_extent),
        src.additional_temporal_extent)

-----------------------------------------------------------------------------
(* ContentsMetadata *)

ContentsMetadata(id, title, reference, abstract, topic_category, keyword_ids, geographic_extent, temporal_extent, custom_class_root) ==
    [id |-> id, title |-> title, reference |-> reference, abstract |-> abstract,
     topic_category |-> topic_category, keyword_ids |-> keyword_ids,
     geographic_extent |-> geographic_extent,
     temporal_extent |-> temporal_extent,
     custom_class_root |-> custom_class_root]

ContentsMetadata_to_dict(cm) ==
    LET data ==
          [id |-> cm.id, title |-> cm.title, reference |-> cm.reference,
           abstract |-> cm.abstract, topic_category |-> cm.topic_category,
           keyword_ids |-> cm.keyword_ids,
           geographic_extent |->
               IF Truthy(cm.geographic_extent)
               THEN Geo_to_dict(cm.geographic_extent[1]) ELSE NoneV,
           temporal_extent |->
               IF Truthy(cm.temporal_extent)
               THEN Temporal_to_dict(cm.temporal_extent[1]) ELSE NoneV]
    IN IF Truthy(cm.custom_class_root)
       THEN Put(data, "class: " \o cm.custom_class_root[1].classname,
                CustomClass_to_dict(cm.custom_class_root[1]))
       ELSE data

\* the basic fields of to_searchable_metadata
ContentsBaseFields(cm) ==
    [id |-> cm.id, reference |-> cm.reference, abstract |-> cm.abstract,
     topic_category |-> cm.topic_category,
     keywords_str |-> SV(JoinStr(cm.keyword_ids, ",")),
     structured |-> <<"json", ContentsMetadata_to_dict(cm)>>]

\* the geographic branch of to_searchable_metadata
ContentsGeoFields(flat, geo) ==
    IF ~Truthy(geo) THEN flat
    ELSE LET ge == geo[1]
             ge_dict == Geo_to_dict(ge)
             f1 == IF "wkt" \in DOMAIN ge_dict
                   THEN Put(flat, "geo_wkt", ge_dict["wkt"]) ELSE flat
         IN
      CASE ge.kind = "GeoExtentString" ->
             Put(Put(f1, "geo_type", SV("string")), "geo_place", SV(ge.place_name))
        [] ge.kind = "GeoExtentPoint" ->
             Put(Put(Put(f1, "geo_type", SV("point")),
                 "geo_lat", PyFloat(ge.lat)),
                 "geo_lon", PyFloat(ge.lon))
        [] ge.kind = "GeoExtentBoundingbox" ->
             Put(Put(Put(Put(Put(f1, "geo_type", SV("bbox")),
                 "geo_north", PyFloat(ge.north)),
                 "geo_west", PyFloat(ge.west)),
                 "geo_south", PyFloat(ge.south)),
                 "geo_east", PyFloat(ge.east))
        [] ge.kind = "GeoExtentSurface" ->
             Put(f1, "geo_type", SV("surface"))
        [] OTHER -> f1

\* temp_desc written for every description, the empty one included
TemporalDescField_Always(flat, te) ==
    IF "description" \in DOMAIN te
    THEN Put(flat, "temp_desc", SV(te.description)) ELSE flat

\* if hasattr(te, 'description') and te.description: flat_meta["temp_desc"] = ...
TemporalDescField(flat, te) ==
    IF "description" \in DOMAIN te /\ te.description # ""
    THEN Put(flat, "temp_desc", SV(te.description)) ELSE flat

\* a temporal branch that tags every variant a period and writes no other key
ContentsTemporalFields_Untyped(flat, temp) ==
    IF ~Truthy(temp) THEN flat ELSE Put(flat, "temp_type", SV("period"))

\* the temporal branch of to_searchable_metadata
ContentsTemporalFields(flat, temp) ==
    IF ~Truthy(temp) THEN flat
    ELSE LET te == temp[1]
             f1 == TemporalDescField(flat, te)
         IN
      CASE te.kind = "TemporalExtentPeriod" ->
             Put(Put(Put(Put(f1, "temp_type", SV("period")),
                 "temp_period_from", timestamp(te.date_from)),
                 "temp_period_expected", timestamp(te.date_expected)),
                 "temp_period_to", timestamp(te.date_to))
        [] te.kind = "TemporalExtentString" ->
             Put(Put(Put(Put(f1, "temp_type", SV("string")),
                 "temp_str_from", SV(te.date_from)),
                 "temp_str_expected", SV(te.date_expected)),
                 "temp_str_to", SV(te.date_to))
        [] te.kind = "TemporalExtentNumber" ->
             Put(Put(Put(Put(f1, "temp_type", SV("number")),
                 "temp_num_from", PyFloat(te.date_from)),
                 "temp_num_expected", PyFloat(te.date_expected)),
                 "temp_num_to", PyFloat(te.date_to))
        [] te.kind = "TemporalExtentBetaDistribution" ->
             Put(Put(Put(Put(Put(Put(f1, "temp_type", SV("distribution")),
                 "temp_dist_start", isoformat(te.start_instant)),
                 "temp_dist_expected", isoformat(te.expected_instant)),
                 "temp_dist_end", isoformat(te.end_instant)),
                 "temp_dist_alpha", PyFloat(te.alpha)),
                 "temp_dist_beta", PyFloat(te.beta))
        [] OTHER -> f1

RECURSIVE FlattenAttributes(_, _, _)
\* the loop over c_class.attributes of _flatten_custom_class_recursive
FlattenAttributes(attrs, target_dict, path_key_prefix) ==
    IF Len(attrs) = 0 THEN target_dict
    ELSE LET attr == Head(attrs)
             full_key == path_key_prefix \o "/" \o attr.key
             stored == IF IsScalar(attr.value) THEN attr.value
                       ELSE SV(PyStr(attr.value))
         IN FlattenAttributes(Tail(attrs), Put(target_dict, full_key, stored),
                              path_key_prefix)

RECURSIVE flatten_custom_class_recursive(_, _, _)
RECURSIVE FlattenChildren(_, _, _)
\* the loop over c_class.children of _flatten_custom_class_recursive
FlattenChildren(children, target_dict, current_path) ==
    IF Len(children) = 0 THEN target_dict
    ELSE FlattenChildren(Tail(children),
             flatten_custom_class_recursive(Head(children), target_dict, current_path),
             current_path)

\* a flattening that prefixes the attributes of a class with the class's own
\* classname only
flatten_custom_class_recursive_OwnName(c_class, target_dict, path_stack) ==
    LET current_path == <<c_class.classname>>
    IN FlattenChildren(c_class.children,
           FlattenAttributes(c_class.attributes, target_dict, c_class.classname),
           current_path)

\* _flatten_custom_class_recursive; the dict it mutates is returned
flatten_custom_class_recursive(c_class, target_dict, path_stack) ==
    LET current_path == Append(path_stack, c_class.classname)
        path_key_prefix == JoinStr(current_path, "/")
    IN FlattenChildren(c_class.children,
           FlattenAttributes(c_class.attributes, target_dict, path_key_prefix),
           current_path)

\* a custom-class branch that flattens the tree into a dict of its own
ContentsCustomFields_Fresh(flat, root) ==
    IF Truthy(root) THEN flatten_custom_class_recursive(root[1], <<>>, <<>>)
    ELSE flat

\* the custom-class branch of to_searchable_metadata
ContentsCustomFields(flat, root) ==
    IF Truthy(root) THEN flatten_custom_class_recursive(root[1], flat, <<>>)
    ELSE flat

to_searchable_metadata(cm) ==
    ContentsCustomFields(
        ContentsTemporalFields(
            ContentsGeoFields(ContentsBaseFields(cm), cm.geographic_extent),
            cm.temporal_extent),
        cm.custom_class_root)

-----------------------------------------------------------------------------
(* Inputs of the flattening checks *)

ClassNames == {"Vessel", "Engine"}
AttrKeys == {"tonnage", "power"}
\* <<value, datatype>> of an attribute
AttrInputs == {<<IV(500), "int">>, <<SV("250"), "int">>, <<NoneV, "">>}

GeoInputs ==
    {None,
     Some(GeoExtentString("Takeshima", "island")),
     Some(GeoExtentPoint(35, 139)),
     Some(GeoExtentBoundingbox(46, 122, 24, 154)),
     Some(GeoExtentBoundingbox(-10, -20, -30, 5)),
     Some(GeoExtentSurface("POLYGON((0 0, 1 0, 1 1, 0 0))"))}

Descriptions == {"", "Edo era"}

TemporalInputs ==
    {None}
    \cup {Some(TemporalExtentPeriod(DateTime(10), DateTime(20), DateTime(30), d)) :
            d \in Descriptions}
    \cup {Some(TemporalExtentString("Edo", "Meiji", "Taisho", d)) : d \in Descriptions}
    \cup {Some(TemporalExtentNumber(1600, 1650, 1700, d)) : d \in Descriptions}
    \cup {Some(TemporalExtentBetaDistribution(d, DateTime(10), DateTime(20),
                                              DateTime(30), 2, 5)) :
            d \in Descriptions}

\* a ContentsMetadata with the given extents and no custom class
ContentsWith(geo, temp) ==
    ContentsMetadata(SV("cont_1"), SV("Title"), SV("ref"), SV("abstract"),
                     SV("history"), <<"kw1", "kw2">>, geo, temp, None)

SourceWith(ate, age) ==
    SourceMetadata(SV("src_1"), SV("cit_1"), SV("EPSG:4326"), ate, age)

\* the ChromaRepository of a run that only flattens
ChromaIdle ==
    /\ collection = <<>>
    /\ last_call = [api |-> "none"]
    /\ upserted = <<>>

\* the PrologRepository of a run that does not use the rule engine
PrologIdle ==
    /\ pl_meta = None
    /\ facts = <<>>
    /\ kb = <<>>
    /\ kb_dynamic = TRUE
    /\ pl_call = [api |-> "none"]
    /\ composed = {}

\* no CustomClassGenerator call in the run
CoerceIdle ==
    /\ gen_in = [api |-> "none"]
    /\ gen_out = None

\* no Metadata root constructed
RootsIdle ==
    /\ lists = <<>>
    /\ roots = <<>>
    /\ expected = <<>>

\* an ApiKeyManager as constructed, never called
KeysIdle ==
    /\ clients = <<>>
    /\ current_index = 0
    /\ key_call = [api |-> "none"]
    /\ streak = <<>>

MaxThreads == 2    \* requests the server works on at a time

\* worker threads of the server: a handler defined with def runs in one
Threads == 1..MaxThreads

\* the server as imported, before any request
ServerIdle ==
    /\ GENERATORS = <<>>
    /\ http = [t \in Threads |-> [api |-> "none"]]

\* the objects of the runs that use neither Metadata roots, nor an
\* ApiKeyManager, nor the server
OtherIdle == RootsIdle /\ KeysIdle /\ ServerIdle

-----------------------------------------------------------------------------
(* Operations on the metadata objects *)

\* ContentsMetadata(..., custom_class_root=CustomClass(classname))
NewRoot(classname) ==
    /\ flat_meta = None
    /\ ~Truthy(contents.custom_class_root)
    /\ contents' = [contents EXCEPT !.custom_class_root =
                       Some(CustomClass(generate_short_id("cclass", <<0>>), classname))]
    /\ UNCHANGED <<source, flat_meta, coll_meta, chromaVars, prologVars, coerceVars, otherVars>>

\* node.add_attribute(Attribute(key, value, datatype)) on a node of the tree
AddAttribute(path, key, vd) ==
    /\ flat_meta = None
    /\ Truthy(contents.custom_class_root)
    /\ path \in Paths(contents.custom_class_root[1])
    /\ AttrCount(contents.custom_class_root[1]) < MaxAttrs
    /\ contents' = [contents EXCEPT !.custom_class_root =
           Some(ApplyAt(@[1], path,
                <<1, Attribute(generate_short_id("attr",
                         <<0>> \o path \o <<0, Len(NodeAt(@[1], path).attributes) + 1>>),
                     key, vd[1], vd[2], "")>>))]
    /\ UNCHANGED <<source, flat_meta, coll_meta, chromaVars, prologVars, coerceVars, otherVars>>

\* a CustomClass(classname) made a child of a node of the tree
AddChild(path, classname) ==
    /\ flat_meta = None
    /\ Truthy(contents.custom_class_root)
    /\ path \in Paths(contents.custom_class_root[1])
    /\ NodeCount(contents.custom_class_root[1]) < MaxNodes
    /\ contents' = [contents EXCEPT !.custom_class_root =
           Some(ApplyAt(@[1], path,
                <<2, CustomClass(generate_short_id("cclass",
                         <<0>> \o path \o <<Len(NodeAt(@[1], path).children) + 1>>),
                     classname)>>))]
    /\ UNCHANGED <<source, flat_meta, coll_meta, chromaVars, prologVars, coerceVars, otherVars>>

\* contents.to_searchable_metadata()
ToSearchableMetadata ==
    /\ flat_meta = None
    /\ flat_meta' = Some(to_searchable_metadata(contents))
    /\ UNCHANGED <<contents, source, coll_meta, chromaVars, prologVars, coerceVars, otherVars>>

\* source.to_collection_metadata()
ToCollectionMetadata ==
    /\ coll_meta = None
    /\ coll_meta' = Some(to_collection_metadata(source))
    /\ UNCHANGED <<contents, source, flat_meta, chromaVars, prologVars, coerceVars, otherVars>>

AllTreePaths == UNION {[1..n -> 1..MaxNodes] : n \in 0..MaxNodes}

(* Custom-class trees built step by step and then flattened *)
InitTree ==
    /\ contents = ContentsWith(Some(GeoExtentPoint(35, 139)),
                               Some(TemporalExtentNumber(1600, 1650, 1700, "Edo era")))
    /\ source = SourceWith(None, None)
    /\ flat_meta = None
    /\ coll_meta = None
    /\ ChromaIdle
    /\ PrologIdle
    /\ CoerceIdle
    /\ OtherIdle

NextTree ==
    \/ \E cn \in ClassNames : NewRoot(cn)
    \/ \E p \in AllTreePaths, k \in AttrKeys, vd \in AttrInputs : AddAttribute(p, k, vd)
    \/ \E p \in AllTreePaths, cn \in ClassNames : AddChild(p, cn)
    \/ ToSearchableMetadata

SpecTree == InitTree /\ [][NextTree]_vars

(* Every combination of extent variants, flattened for both collections *)
InitExtent ==
    /\ \E geo \in GeoInputs, temp \in TemporalInputs :
          contents = ContentsWith(geo, temp)
    /\ \E age \in GeoInputs, ate \in TemporalInputs :
          source = SourceWith(ate, age)
    /\ flat_meta = None
    /\ coll_meta = None
    /\ ChromaIdle
    /\ PrologIdle
    /\ CoerceIdle
    /\ OtherIdle

NextExtent ==
    \/ ToSearchableMetadata
    \/ ToCollectionMetadata

SpecExtent == InitExtent /\ [][NextExtent]_vars

-----------------------------------------------------------------------------
(* Properties of the flattening *)

HasPrefix(k, p) == Len(k) >= Len(p) /\ SubSeq(k, 1, Len(p)) = p

\* the keys the custom-class branch added to the flat map
CustomKeys(cm, flat) ==
    (DOMAIN flat) \ DOMAIN ContentsTemporalFields(
        ContentsGeoFields(ContentsBaseFields(cm), cm.geographic_extent),
        cm.temporal_extent)

RECURSIVE FlatKeyList(_, _)
\* the flat keys of all attributes of the tree, one entry per attribute:
\* '/'-joined classnames from the root to the node, '/', attribute key
FlatKeyList(c, path_stack) ==
    LET here == Append(path_stack, c.classname)
        RECURSIVE Sub(_)
        Sub(i) == IF i > Len(c.children) THEN <<>>
                  ELSE FlatKeyList(c.children[i], here) \o Sub(i + 1)
    IN [i \in DOMAIN c.attributes |->
            JoinStr(here, "/") \o "/" \o c.attributes[i].key] \o Sub(1)

\* two attributes of the tree produce the same flat key
HasKeyCollision(c) ==
    LET ks == FlatKeyList(c, <<>>)
    IN \E i, j \in DOMAIN ks : i < j /\ ks[i] = ks[j]

\* C1: flattening a ContentsMetadata with a custom-class tree adds exactly
\* as many attribute keys to the flat map as the tree has attributes (the
\* sum of the attribute counts of its nodes), so no attribute is lost.
C1_FlattenKeepsEveryAttribute ==
    (flat_meta # None /\ Truthy(contents.custom_class_root)) =>
        Cardinality(CustomKeys(contents, flat_meta[1]))
            = AttrCount(contents.custom_class_root[1])

\* C2: a tree in which two attributes produce the same flat key is never
\* flattened into a map: building or flattening it ends in an error instead
\* of the later value replacing the earlier one.
C2_CollisionIsRejected ==
    (flat_meta # None /\ Truthy(contents.custom_class_root)) =>
        ~HasKeyCollision(contents.custom_class_root[1])

\* the extent-derived keys of a collection-level map
SourceBaseKeys == {"source_id", "citation_id", "reference_system", "structured"}
ContentsBaseKeys ==
    {"id", "reference", "abstract", "topic_category", "keywords_str", "structured"}

\* C9: every extent-derived key of to_collection_metadata() is a key that
\* to_searchable_metadata() emits for the same extents, prefixed with
\* "src_"; no extent-derived key lacks the prefix.
C9_SourceKeysArePrefixedContentsKeys ==
    coll_meta # None =>
        LET ref == to_searchable_metadata(
                       ContentsWith(source.additional_geographic_extent,
                                    source.additional_temporal_extent))
        IN \A k \in (DOMAIN coll_meta[1]) \ SourceBaseKeys :
              \E k2 \in (DOMAIN ref) \ ContentsBaseKeys : k = "src_" \o k2

GeoTypeOf(kind) ==
    CASE kind = "GeoExtentString" -> "string"
      [] kind = "GeoExtentPoint" -> "point"
      [] kind = "GeoExtentBoundingbox" -> "bbox"
      [] kind = "GeoExtentSurface" -> "surface"

GeoVariantKeys(kind) ==
    CASE kind = "GeoExtentString" -> {"geo_place"}
      [] kind = "GeoExtentPoint" -> {"geo_lat", "geo_lon"}
      [] kind = "GeoExtentBoundingbox" ->
             {"geo_north", "geo_west", "geo_south", "geo_east"}
      [] kind = "GeoExtentSurface" -> {}

\* C10: for every geographic variant the flat map holds geo_type with the
\* variant's tag, the variant's own keys and no other geo_ key, and holds
\* geo_wkt exactly when the variant is Point, BoundingBox or Surface.
C10_GeoVariantKeys ==
    (flat_meta # None /\ Truthy(contents.geographic_extent)) =>
        LET f == flat_meta[1]
            kind == contents.geographic_extent[1].kind
            geo_keys == {k \in DOMAIN f : HasPrefix(k, "geo_")}
            hasWkt == kind \in {"GeoExtentPoint", "GeoExtentBoundingbox",
                                "GeoExtentSurface"}
        IN /\ "geo_type" \in geo_keys
           /\ f["geo_type"] = SV(GeoTypeOf(kind))
           /\ geo_keys \ {"geo_type", "geo_wkt"} = GeoVariantKeys(kind)
           /\ ("geo_wkt" \in geo_keys) <=> hasWkt

C10_Witness ==
    /\ flat_meta # None
    /\ Truthy(contents.geographic_extent)
    /\ contents.geographic_extent[1].kind = "GeoExtentPoint"
    /\ "geo_wkt" \in DOMAIN flat_meta[1]
    /\ flat_meta[1]["geo_lat"] = FV(35)

-----------------------------------------------------------------------------
(* ChromaRepository: the repository layer over one Chroma collection *)

RecordIds == {"1", "2"}
Documents == {"a", "b"}
Metadatas == {[source_id |-> "s1"], [source_id |-> "s2"]}

SeqsUpTo(S, n) == UNION {[1..k -> S] : k \in 0..n}
Range(seq) == {seq[i] : i \in DOMAIN seq}

\* position of the record with this id in the collection, 0 when absent
IndexOfId(coll, id) ==
    IF \E i \in DOMAIN coll : coll[i].id = id
    THEN CHOOSE i \in DOMAIN coll : coll[i].id = id
    ELSE 0

\* one (id, document, metadata) of Collection.upsert: the record with the
\* id is replaced where it is, a new id is added at the end
UpsertOne(coll, id, document, metadata) ==
    LET rec == [id |-> id, document |-> document, metadata |-> metadata]
        at == IndexOfId(coll, id)
    IN IF at = 0 THEN Append(coll, rec) ELSE [coll EXCEPT ![at] = rec]

\* one (id, document, metadata) of Collection.add: a new id is added at the
\* end, an id the collection already holds is left as it is
AddOne(coll, id, document, metadata) ==
    IF IndexOfId(coll, id) = 0
    THEN Append(coll, [id |-> id, document |-> document, metadata |-> metadata])
    ELSE coll

RECURSIVE UpsertAll(_, _, _, _)
UpsertAll(coll, ids, documents, metadatas) ==
    IF Len(ids) = 0 THEN coll
    ELSE UpsertAll(UpsertOne(coll, Head(ids), Head(documents), Head(metadatas)),
                   Tail(ids), Tail(documents), Tail(metadatas))

RECURSIVE AddAll(_, _, _, _)
AddAll(coll, ids, documents, metadatas) ==
    IF Len(ids) = 0 THEN coll
    ELSE AddAll(AddOne(coll, Head(ids), Head(documents), Head(metadatas)),
                Tail(ids), Tail(documents), Tail(metadatas))

\* self.collection.add(ids=ids, documents=chunks, metadatas=metadatas)
Collection_add(coll, ids, documents, metadatas, up) ==
    IF ~up \/ Cardinality(Range(ids)) # Len(ids)
    THEN [ok |-> FALSE, collection |-> coll]
    ELSE [ok |-> TRUE, collection |-> AddAll(coll, ids, documents, metadatas)]

\* self.collection.upsert(ids=ids, documents=chunks, metadatas=metadatas).
\* The call raises when the store cannot be reached (up = FALSE) and when
\* ids holds an id twice; otherwise every id is written.
Collection_upsert(coll, ids, documents, metadatas, up) ==
    IF ~up \/ Cardinality(Range(ids)) # Len(ids)
    THEN [ok |-> FALSE, collection |-> coll]
    ELSE [ok |-> TRUE, collection |-> UpsertAll(coll, ids, documents, metadatas)]

\* the records a delete(ids, where) selects: those whose id is listed (when
\* ids is given) and whose metadata matches the filter (when where is given)
Selected(rec_id, rec_metadata, ids, where) ==
    /\ ids = None \/ rec_id \in Range(ids[1])
    /\ where = None \/ rec_metadata = where[1]

RECURSIVE Keep(_, _, _)
Keep(coll, ids, where) ==
    IF Len(coll) = 0 THEN <<>>
    ELSE IF Selected(Head(coll).id, Head(coll).metadata, ids, where)
         THEN Keep(Tail(coll), ids, where)
         ELSE <<Head(coll)>> \o Keep(Tail(coll), ids, where)

\* self.collection.delete(ids=ids, where=where).  The call raises when the
\* store cannot be reached and when it is given neither a non-empty ids nor
\* a where filter.
Collection_delete(coll, ids, where, up) ==
    IF ~up \/ ((ids = None \/ ids = Some(<<>>)) /\ where = None)
    THEN [ok |-> FALSE, collection |-> coll]
    ELSE [ok |-> TRUE, collection |-> Keep(coll, ids, where)]

\* the distance the store computes between a query text and a document: 0
\* for the document that is the query text, 1 for any other
Distance(query_text, document) == IF query_text = document THEN 0 ELSE 1

\* the records matching the filter, nearest first (records at the same
\* distance in the order the collection holds them)
Ranked(coll, query_text, where) ==
    LET matching == SelectSeq(coll, LAMBDA rec :
                        Selected(rec.id, rec.metadata, None, where))
    IN SelectSeq(matching, LAMBDA rec : Distance(query_text, rec.document) = 0)
         \o SelectSeq(matching, LAMBDA rec : Distance(query_text, rec.document) = 1)

\* the first n elements of a list
Take(seq, n) == SubSeq(seq, 1, IF Len(seq) < n THEN Len(seq) ELSE n)

\* self.collection.query(query_texts=query_texts, n_results=k, where=where).
\* The call raises when the store cannot be reached; otherwise res holds,
\* under "documents", "metadatas" and "distances", one list per query text:
\* those of the n_results nearest records matching the filter.
Collection_query(coll, query_texts, n_results, where, up) ==
    IF ~up
    THEN [ok |-> FALSE, res |-> <<>>]
    ELSE LET hits == [i \in DOMAIN query_texts |->
                         Take(Ranked(coll, query_texts[i], where), n_results)]
         IN [ok |-> TRUE,
             res |-> [documents |-> [i \in DOMAIN query_texts |->
                         [j \in DOMAIN hits[i] |-> hits[i][j].document]],
                      metadatas |-> [i \in DOMAIN query_texts |->
                         [j \in DOMAIN hits[i] |-> hits[i][j].metadata]],
                      distances |-> [i \in DOMAIN query_texts |->
                         [j \in DOMAIN hits[i] |->
                            Distance(query_texts[i], hits[i][j].document)]]]]

\* zip(docs, metas, distances) made into {"text", "meta", "distance"} records
ZipHits(docs, metas, distances) ==
    LET n == CHOOSE m \in {Len(docs), Len(metas), Len(distances)} :
                 m <= Len(docs) /\ m <= Len(metas) /\ m <= Len(distances)
    IN [j \in 1..n |-> [text |-> docs[j], meta |-> metas[j],
                        distance |-> distances[j]]]

\* upsert_chunks that writes with Collection.add
upsert_chunks_Adding(coll, chunks, metadatas, ids, up) ==
    IF Len(chunks) = 0
    THEN [collection |-> coll, raised |-> "none", backend |-> None,
          applied |-> FALSE, logged |-> "warning"]
    ELSE IF ~(Len(chunks) = Len(metadatas) /\ Len(metadatas) = Len(ids))
    THEN [collection |-> coll, raised |-> "none", backend |-> None,
          applied |-> FALSE, logged |-> "error"]
    ELSE LET r == Collection_add(coll, ids, chunks, metadatas, up)
         IN [collection |-> r.collection, raised |-> "none",
             backend |-> Some([op |-> "add", ids |-> ids, documents |-> chunks,
                               metadatas |-> metadatas]),
             applied |-> r.ok, logged |-> IF r.ok THEN "info" ELSE "error"]

\* upsert_chunks without the early return on an empty chunks list
upsert_chunks_NoSkip(coll, chunks, metadatas, ids, up) ==
    IF ~(Len(chunks) = Len(metadatas) /\ Len(metadatas) = Len(ids))
    THEN [collection |-> coll, raised |-> "none", backend |-> None,
          applied |-> FALSE, logged |-> "error"]
    ELSE LET r == Collection_upsert(coll, ids, chunks, metadatas, up)
         IN [collection |-> r.collection, raised |-> "none",
             backend |-> Some([op |-> "upsert", ids |-> ids, documents |-> chunks,
                               metadatas |-> metadatas]),
             applied |-> r.ok, logged |-> IF r.ok THEN "info" ELSE "error"]

\* ChromaRepository.upsert_chunks.  raised is the exception that reaches the
\* caller ("none" when the call returns), backend the call made on the
\* collection (None when none is made), applied whether that call succeeded.
\* Everything raised inside the try block, the ValueError of the length check
\* included, is caught by "except Exception", logged and printed.
upsert_chunks(coll, chunks, metadatas, ids, up) ==
    IF Len(chunks) = 0
    THEN [collection |-> coll, raised |-> "none", backend |-> None,
          applied |-> FALSE, logged |-> "warning"]
    ELSE IF ~(Len(chunks) = Len(metadatas) /\ Len(metadatas) = Len(ids))
    THEN [collection |-> coll, raised |-> "none", backend |-> None,
          applied |-> FALSE, logged |-> "error"]
    ELSE LET r == Collection_upsert(coll, ids, chunks, metadatas, up)
         IN [collection |-> r.collection, raised |-> "none",
             backend |-> Some([op |-> "upsert", ids |-> ids, documents |-> chunks,
                               metadatas |-> metadatas]),
             applied |-> r.ok, logged |-> IF r.ok THEN "info" ELSE "error"]

\* delete_chunks whose argument check sits inside the try block
delete_chunks_Swallowing(coll, ids, where, up) ==
    IF ids = None /\ where = None
    THEN [collection |-> coll, raised |-> "none", backend |-> None,
          applied |-> FALSE, logged |-> "error"]
    ELSE LET r == Collection_delete(coll, ids, where, up)
         IN [collection |-> r.collection, raised |-> "none",
             backend |-> Some([op |-> "delete", ids |-> ids, where |-> where]),
             applied |-> r.ok, logged |-> IF r.ok THEN "info" ELSE "error"]

\* ChromaRepository.delete_chunks.  The argument check comes before the try
\* block, so its ValueError reaches the caller; what the collection raises
\* is caught and logged.
delete_chunks(coll, ids, where, up) ==
    IF ids = None /\ where = None
    THEN [collection |-> coll, raised |-> "ValueError", backend |-> None,
          applied |-> FALSE, logged |-> "error"]
    ELSE LET r == Collection_delete(coll, ids, where, up)
         IN [collection |-> r.collection, raised |-> "none",
             backend |-> Some([op |-> "delete", ids |-> ids, where |-> where]),
             applied |-> r.ok, logged |-> IF r.ok THEN "info" ELSE "error"]

\* query_collection without the early return on an empty query_texts list
query_collection_NoSkip(coll, query_texts, k, where_filter, up) ==
    LET r == Collection_query(coll, query_texts, k, where_filter, up)
        called == Some([op |-> "query", query_texts |-> query_texts,
                        n_results |-> k, where |-> where_filter])
    IN IF ~r.ok \/ Len(query_texts) = 0
       THEN [result |-> <<>>, raised |-> "none", backend |-> called,
             applied |-> FALSE, logged |-> "error"]
       ELSE [result |-> ZipHits(r.res.documents[1], r.res.metadatas[1],
                                r.res.distances[1]),
             raised |-> "none", backend |-> called,
             applied |-> TRUE, logged |-> "info"]

\* ChromaRepository.query_collection.  result is the list returned, backend
\* the call made on the collection (None when none is made), applied whether
\* that call answered.  Only the lists at position 0 of the answer, those of
\* the first query text, are read; whatever the collection raises is caught
\* and logged, and the empty list is returned.
query_collection(coll, query_texts, k, where_filter, up) ==
    IF Len(query_texts) = 0
    THEN [result |-> <<>>, raised |-> "none", backend |-> None,
          applied |-> FALSE, logged |-> "warning"]
    ELSE LET r == Collection_query(coll, query_texts, k, where_filter, up)
             called == Some([op |-> "query", query_texts |-> query_texts,
                             n_results |-> k, where |-> where_filter])
         IN IF ~r.ok
            THEN [result |-> <<>>, raised |-> "none", backend |-> called,
                  applied |-> FALSE, logged |-> "error"]
            ELSE [result |-> ZipHits(r.res.documents[1], r.res.metadatas[1],
                                     r.res.distances[1]),
                  raised |-> "none", backend |-> called,
                  applied |-> TRUE, logged |-> "info"]

\* the MetadataFlattening objects of a run that only uses the repository
FlattenIdle ==
    /\ contents = ContentsWith(None, None)
    /\ source = SourceWith(None, None)
    /\ flat_meta = None
    /\ coll_meta = None

\* repo.upsert_chunks(chunks, metadatas, ids)
UpsertChunks(chunks, metadatas, ids, up) ==
    LET r == upsert_chunks(collection, chunks, metadatas, ids, up)
    IN /\ collection' = r.collection
       /\ last_call' = [api |-> "upsert_chunks",
                        no_chunks |-> Len(chunks) = 0,
                        same_length |-> (Len(chunks) = Len(metadatas)
                                          /\ Len(metadatas) = Len(ids)),
                        raised |-> r.raised, called |-> r.backend # None,
                        applied |-> r.applied,
                        rewrote |-> (r.applied /\ \E i \in DOMAIN ids :
                                        IndexOfId(collection, ids[i]) # 0)]
       /\ upserted' =
            IF r.applied
            THEN [x \in (DOMAIN upserted) \cup Range(ids) |->
                    IF x \in Range(ids)
                    THEN LET i == CHOOSE j \in DOMAIN ids : ids[j] = x
                         IN [document |-> chunks[i], metadata |-> metadatas[i]]
                    ELSE upserted[x]]
            ELSE upserted
       /\ UNCHANGED <<flattenVars, prologVars, coerceVars, otherVars>>

\* repo.delete_chunks(ids, where)
DeleteChunks(ids, where, up) ==
    LET r == delete_chunks(collection, ids, where, up)
    IN /\ collection' = r.collection
       /\ last_call' = [api |-> "delete_chunks", ids |-> ids, where |-> where,
                        raised |-> r.raised, backend |-> r.backend,
                        applied |-> r.applied]
       /\ upserted' =
            IF r.applied
            THEN [x \in {y \in DOMAIN upserted :
                           ~Selected(y, upserted[y].metadata, ids, where)} |->
                    upserted[x]]
            ELSE upserted
       /\ UNCHANGED <<flattenVars, prologVars, coerceVars, otherVars>>

\* repo.query_collection(query_texts, k, where_filter)
QueryCollection(query_texts, k, where_filter, up) ==
    LET r == query_collection(collection, query_texts, k, where_filter, up)
    IN /\ last_call' = [api |-> "query_collection",
                        query_texts |-> query_texts, k |-> k,
                        where_filter |-> where_filter,
                        raised |-> r.raised, called |-> r.backend # None,
                        applied |-> r.applied, result |-> r.result]
       /\ UNCHANGED <<collection, upserted, flattenVars, prologVars, coerceVars, otherVars>>

InitChroma ==
    /\ FlattenIdle
    /\ collection = <<>>
    /\ last_call = [api |-> "none"]
    /\ upserted = <<>>
    /\ PrologIdle
    /\ CoerceIdle
    /\ OtherIdle

\* The argument lists tried for upsert_chunks: every choice of lists of one
\* length, and for lists of unequal lengths (of which the code reads nothing
\* but the lengths) one choice per triple of lengths.
UpsertInputOK(chunks, metadatas, ids) ==
    \/ Len(chunks) = Len(metadatas) /\ Len(metadatas) = Len(ids)
    \/ /\ Range(chunks) \subseteq {"a"}
       /\ Range(metadatas) \subseteq {[source_id |-> "s1"]}
       /\ Range(ids) \subseteq {"1"}

NextChroma ==
    \/ \E chunks \in SeqsUpTo(Documents, MaxBatch),
          metadatas \in SeqsUpTo(Metadatas, MaxBatch),
          ids \in SeqsUpTo(RecordIds, MaxBatch), up \in BOOLEAN :
          UpsertInputOK(chunks, metadatas, ids)
            /\ UpsertChunks(chunks, metadatas, ids, up)
    \/ \E ids \in {None} \cup {Some(l) : l \in SeqsUpTo(RecordIds, MaxDelete)},
          where \in {None} \cup {Some(m) : m \in Metadatas}, up \in BOOLEAN :
          DeleteChunks(ids, where, up)

SpecChroma == InitChroma /\ [][NextChroma]_vars

\* A store that is filled by one upsert_chunks and queried from then on
\* (query_collection changes nothing in the store).
NextQuery ==
    \/ /\ collection = <<>>
       /\ \E n \in 0..MaxBatch :
             \E chunks \in [1..n -> Documents], metadatas \in [1..n -> Metadatas],
                ids \in [1..n -> RecordIds] :
                UpsertChunks(chunks, metadatas, ids, TRUE)
    \/ \E query_texts \in SeqsUpTo(Documents, MaxQueries), k \in 1..MaxK,
          where_filter \in {None, Some([source_id |-> "s1"])},
          up \in BOOLEAN :
          QueryCollection(query_texts, k, where_filter, up)

SpecQuery == InitChroma /\ [][NextQuery]_vars

-----------------------------------------------------------------------------
(* Properties of the ChromaRepository *)

\* C3: upsert_chunks with non-empty chunks and lists of unequal lengths ends
\* with a length-mismatch error that reaches the caller, and makes no call on
\* the collection.
C3_LengthMismatchReachesCaller ==
    (last_call.api = "upsert_chunks" /\ ~last_call.no_chunks
        /\ ~last_call.same_length) =>
        (last_call.raised = "ValueError" /\ ~last_call.called)

\* C4: delete_chunks with ids=None and where=None raises a ValueError to the
\* caller, makes no call on the collection and leaves the records as they
\* were; with ids or where given, the collection's delete is called with
\* exactly the ids and where of the call.
C4_DeleteValidation ==
    [][last_call'.api = "delete_chunks" =>
         IF last_call'.ids = None /\ last_call'.where = None
         THEN /\ last_call'.raised = "ValueError"
              /\ last_call'.backend = None
              /\ collection' = collection
         ELSE last_call'.backend =
                  Some([op |-> "delete", ids |-> last_call'.ids,
                        where |-> last_call'.where])]_vars

C4_Witness ==
    /\ last_call.api = "delete_chunks"
    /\ last_call.ids = None /\ last_call.where = None
    /\ last_call.raised = "ValueError"
    /\ Len(collection) > 0

\* C6: the collection holds one record per id written by an upsert that
\* went through and not deleted since, with the document and metadata of
\* the last such upsert; and an upsert_chunks repeated with the same
\* arguments leaves the collection as the first call left it.
C6_UpsertIdempotentById ==
    /\ \A i, j \in DOMAIN collection :
          collection[i].id = collection[j].id => i = j
    /\ {collection[i].id : i \in DOMAIN collection} = DOMAIN upserted
    /\ \A i \in DOMAIN collection :
          /\ collection[i].document = upserted[collection[i].id].document
          /\ collection[i].metadata = upserted[collection[i].id].metadata
    /\ \A chunks \in SeqsUpTo(Documents, MaxBatch),
          metadatas \in SeqsUpTo(Metadatas, MaxBatch),
          ids \in SeqsUpTo(RecordIds, MaxBatch) :
          UpsertInputOK(chunks, metadatas, ids) =>
            LET once == upsert_chunks(collection, chunks, metadatas, ids, TRUE)
                twice == upsert_chunks(once.collection, chunks, metadatas, ids, TRUE)
            IN twice.collection = once.collection

C6_Witness ==
    /\ last_call.api = "upsert_chunks"
    /\ last_call.rewrote
    /\ Len(collection) = 1
    /\ collection[1].document = "b"

\* C18: upsert_chunks with an empty chunks list returns without error, makes
\* no call on the collection and leaves the records as they were, whatever
\* the metadatas and ids of the call are.
C18_EmptyChunksIsNoOp ==
    [][(last_call'.api = "upsert_chunks" /\ last_call'.no_chunks) =>
          /\ last_call'.raised = "none"
          /\ ~last_call'.called
          /\ ~last_call'.applied
          /\ collection' = collection]_vars

C18_Witness ==
    /\ last_call.api = "upsert_chunks"
    /\ last_call.no_chunks /\ ~last_call.same_length
    /\ last_call.raised = "none" /\ ~last_call.called
    /\ Len(collection) = 2

\* C19: query_collection with an empty query_texts list returns the empty
\* list, raises nothing and makes no call on the collection.
C19_EmptyQueryReturnsEmpty ==
    (last_call.api = "query_collection" /\ Len(last_call.query_texts) = 0) =>
        /\ last_call.result = <<>>
        /\ last_call.raised = "none"
        /\ ~last_call.called

C19_Witness ==
    /\ last_call.api = "query_collection"
    /\ last_call.query_texts = <<>>
    /\ last_call.result = <<>> /\ ~last_call.called
    /\ Len(collection) = 2

\* the ranked hits of one query text: the k nearest records matching the
\* filter, each as a record of the document, metadata and distance of one
\* position of the store's answer
HitsOf(coll, query_text, k, where_filter) ==
    LET hits == Take(Ranked(coll, query_text, where_filter), k)
    IN [j \in DOMAIN hits |-> [text |-> hits[j].document,
                               meta |-> hits[j].metadata,
                               distance |-> Distance(query_text, hits[j].document)]]

\* C20: a query_collection call with n >= 1 query texts that the store
\* answers returns, for each of the n query texts, that text's ranked hits:
\* at most k per text, each the {text, meta, distance} of one position.
C20_HitsOfEveryQueryText ==
    (last_call.api = "query_collection" /\ last_call.applied) =>
        /\ \A i \in DOMAIN last_call.query_texts :
              LET hits == HitsOf(collection, last_call.query_texts[i],
                                 last_call.k, last_call.where_filter)
              IN /\ Len(hits) <= last_call.k
                 /\ \E at \in 0..(Len(last_call.result) - Len(hits)) :
                       SubSeq(last_call.result, at + 1, at + Len(hits)) = hits
        /\ \A j \in DOMAIN last_call.result :
              \E i \in DOMAIN last_call.query_texts :
                 last_call.result[j] \in
                    Range(HitsOf(collection, last_call.query_texts[i],
                                 last_call.k, last_call.where_filter))

-----------------------------------------------------------------------------
(* The domain model of metadata_repository.py, which prolog.py converts.   *)
(* Its classes share their names with those of metadata_schema.py above,   *)
(* hence the MR_ prefix.                                                   *)

MR_GeoExtentDescription(description) ==
    [kind |-> "GeoExtentDescription", description |-> description]
MR_GeoExtentPoint(lat, lon) ==
    [kind |-> "GeoExtentPoint", lat |-> lat, lon |-> lon]
MR_GeoExtentSurface(wkt) ==
    [kind |-> "GeoExtentSurface", wkt |-> wkt]

MR_TemporalExtentBetaDistribution(description, start_instant, end_instant, alpha, beta) ==
    [kind |-> "TemporalExtentBetaDistribution", description |-> description,
     start_instant |-> start_instant, end_instant |-> end_instant,
     alpha |-> alpha, beta |-> beta]
MR_TemporalExtentInstant(instant) ==
    [kind |-> "TemporalExtentInstant", instant |-> instant]

MR_Attribute(id, key, value, datatype, description, children) ==
    [id |-> id, key |-> key, value |-> value, datatype |-> datatype,
     description |-> description, children |-> children]

MR_CustomClass(id, classname, attributes, children) ==
    [id |-> id, classname |-> classname, attributes |-> attributes,
     children |-> children]

MR_SourceMetadata(id, citation_id, reference_system_id, ate, age) ==
    [id |-> id, citation_id |-> citation_id,
     reference_system_id |-> reference_system_id,
     additional_temporal_extent |-> ate, additional_geographic_extent |-> age]

MR_ContentsMetadata(id, abstract, topic_category, keyword_ids, geographic_extent, temporal_extent, custom_class_root) ==
    [id |-> id, abstract |-> abstract, topic_category |-> topic_category,
     keyword_ids |-> keyword_ids, geographic_extent |-> geographic_extent,
     temporal_extent |-> temporal_extent,
     custom_class_root |-> custom_class_root]

MR_Metadata(id, datastamp, language, contact_id, src, cont) ==
    [id |-> id, datastamp |-> datastamp, language |-> language,
     contact_id |-> contact_id, source |-> src, contents |-> cont]

-----------------------------------------------------------------------------
(* Facts.  A fact is written by an f-string: a predicate name and a list   *)
(* of arguments, each a quoted literal '{value}', a bare text, or a nested *)
(* term.  The f-string's text is Render of it.                             *)

Term(name, args) == [name |-> name, args |-> args]
Lit(s) == <<"lit", s>>     \* '{s}'
Raw(s) == <<"raw", s>>     \* text outside quotes: an atom or {number}
Sub(t) == <<"term", t>>    \* a nested term, point(...)

quote == "'"
backslash == "\\"

RECURSIVE Concat(_)
\* the lists of a list, one after the other (facts.extend)
Concat(ss) == IF Len(ss) = 0 THEN <<>> ELSE Head(ss) \o Concat(Tail(ss))

RECURSIVE Render(_)
RenderArg(a) ==
    CASE a[1] = "lit" -> quote \o a[2] \o quote
      [] a[1] = "raw" -> a[2]
      [] OTHER -> Render(a[2])

\* the text of the f-string
Render(t) ==
    t.name \o "(" \o JoinStr([i \in DOMAIN t.args |-> RenderArg(t.args[i])], ", ") \o ")"

RECURSIVE Literals(_)
\* the values the f-string puts between quotes, left to right
Literals(t) ==
    Concat([i \in DOMAIN t.args |->
              CASE t.args[i][1] = "lit" -> <<t.args[i][2]>>
                [] t.args[i][1] = "raw" -> <<>>
                [] OTHER -> Literals(t.args[i][2])])

RECURSIVE Escape(_)
\* f.replace("'", "\\'")
Escape(f) ==
    IF Len(f) = 0 THEN ""
    ELSE (IF SubSeq(f, 1, 1) = quote THEN backslash \o quote ELSE SubSeq(f, 1, 1))
            \o Escape(SubSeq(f, 2, Len(f)))

\* a CustomClass converted without its attributes and children, under a
\* predicate custom_class/1
convert_custom_class_to_facts_Bare(cclass) ==
    <<Term("custom_class", <<Lit(cclass.id)>>)>>

RECURSIVE convert_custom_class_to_facts(_)
\* the facts of one Attribute of cclass, its child attributes each wrapped
\* in a CustomClass of their own
AttributeFacts(cclass, attr) ==
    <<Term("attribute", <<Lit(attr.id)>>),
      Term("custom_class_attribute", <<Lit(cclass.id), Lit(attr.id)>>),
      Term("attribute_value", <<Lit(attr.id), Lit(attr.key), Lit(PyStr(attr.value)),
                                Lit(attr.datatype), Lit(attr.description)>>)>>
    \o Concat([i \in DOMAIN attr.children |->
         <<Term("attribute_child", <<Lit(attr.id), Lit(attr.children[i].id)>>)>>
         \o convert_custom_class_to_facts(
                MR_CustomClass("attr_child_" \o attr.children[i].id,
                               "child_attr_wrapper", <<attr.children[i]>>, <<>>))])

\* PrologRepository._convert_custom_class_to_facts
convert_custom_class_to_facts(cclass) ==
    <<Term("custom_class", <<Lit(cclass.id), Lit(cclass.classname)>>)>>
    \o Concat([i \in DOMAIN cclass.attributes |->
                 AttributeFacts(cclass, cclass.attributes[i])])
    \o Concat([i \in DOMAIN cclass.children |->
         <<Term("custom_class_child", <<Lit(cclass.id), Lit(cclass.children[i].id)>>)>>
         \o convert_custom_class_to_facts(cclass.children[i])])

\* Python truthiness of an Optional[Any] field holding None or a string
TruthyValue(v) == v # NoneV /\ v # SV("")

\* the facts list of convert_metadata_to_facts before its last line
FactTerms(m) ==
    LET src == m.source
        cont == m.contents
        geo_extent == cont.geographic_extent
        geo_id == "geo_" \o cont.id
        temp_extent == cont.temporal_extent
        temp_id == "temp_" \o cont.id
    IN <<Term("metadata", <<Lit(m.id)>>),
         Term("metadata_attribute", <<Lit(m.id), Raw("id"), Lit(m.id)>>),
         Term("metadata_attribute", <<Lit(m.id), Raw("datastamp"), Lit(isoformat(m.datastamp)[2])>>),
         Term("metadata_attribute", <<Lit(m.id), Raw("language"), Lit(m.language)>>),
         Term("metadata_contact", <<Lit(m.id), Lit(m.contact_id)>>),
         Term("sourceMetadata", <<Lit(src.id)>>),
         Term("aggregates_source", <<Lit(m.id), Lit(src.id)>>),
         Term("has_citation", <<Lit(src.id), Lit(src.citation_id)>>),
         Term("has_reference_system", <<Lit(src.id), Lit(src.reference_system_id)>>)>>
       \o (IF TruthyValue(src.additional_temporal_extent)
           THEN <<Term("source_attribute", <<Lit(src.id), Raw("additional_temporal_extent"),
                                             Lit(PyStr(src.additional_temporal_extent))>>)>>
           ELSE <<>>)
       \o (IF TruthyValue(src.additional_geographic_extent)
           THEN <<Term("source_attribute", <<Lit(src.id), Raw("additional_geographic_extent"),
                                             Lit(PyStr(src.additional_geographic_extent))>>)>>
           ELSE <<>>)
       \o <<Term("contentsMetadata", <<Lit(cont.id)>>),
            Term("composes_contents", <<Lit(m.id), Lit(cont.id)>>),
            Term("contents_attribute", <<Lit(cont.id), Raw("abstract"), Lit(cont.abstract)>>),
            Term("contents_attribute", <<Lit(cont.id), Raw("topicCategory"), Lit(cont.topic_category)>>)>>
       \o [i \in DOMAIN cont.keyword_ids |->
             Term("has_keyword", <<Lit(cont.id), Lit(cont.keyword_ids[i])>>)]
       \o <<Term("has_geographic_extent", <<Lit(cont.id), Lit(geo_id)>>)>>
       \o (CASE geo_extent.kind = "GeoExtentDescription" ->
                  <<Term("geographic_extent_is_description",
                         <<Lit(geo_id), Lit(geo_extent.description)>>)>>
             [] geo_extent.kind = "GeoExtentPoint" ->
                  <<Term("geographic_extent_is_point",
                         <<Lit(geo_id), Sub(Term("point", <<Lit(PyStr(geo_extent.lat)),
                                                            Lit(PyStr(geo_extent.lon))>>))>>)>>
             [] geo_extent.kind = "GeoExtentSurface" ->
                  <<Term("geographic_extent_is_surface", <<Lit(geo_id), Lit(geo_extent.wkt)>>)>>
             [] OTHER -> <<>>)
       \o <<Term("has_temporal_extent", <<Lit(cont.id), Lit(temp_id)>>)>>
       \o (CASE temp_extent.kind = "TemporalExtentInstant" ->
                  <<Term("temporal_extent_is_instant",
                         <<Lit(temp_id), Lit(isoformat(temp_extent.instant)[2])>>)>>
             [] temp_extent.kind = "TemporalExtentBetaDistribution" ->
                  <<Term("temporal_extent_is_beta_distribution", <<Lit(temp_id)>>),
                    Term("beta_dist_universe",
                         <<Lit(temp_id), Lit(isoformat(temp_extent.start_instant)[2]),
                           Lit(isoformat(temp_extent.end_instant)[2])>>),
                    Term("beta_dist_params",
                         <<Lit(temp_id), Raw(PyStr(temp_extent.alpha)),
                           Raw(PyStr(temp_extent.beta))>>),
                    Term("beta_dist_description", <<Lit(temp_id), Lit(temp_extent.description)>>)>>
             [] OTHER -> <<>>)
       \o (IF Truthy(cont.custom_class_root)
           THEN <<Term("aggregates_custom", <<Lit(cont.id), Lit(cont.custom_class_root[1].id)>>)>>
                \o convert_custom_class_to_facts(cont.custom_class_root[1])
           ELSE <<>>)

\* PrologRepository.convert_metadata_to_facts
convert_metadata_to_facts(m) ==
    LET terms == FactTerms(m)
    IN [i \in DOMAIN terms |-> Escape(Render(terms[i]))]

-----------------------------------------------------------------------------
(* The rule engine behind prolog_thread.query: the reader of a term's      *)
(* text, assertz, and the goal inconsistent_composition(X).                *)

MaxClauses == 3    \* clauses held by the rule engine

RECURSIVE ReadQuoted(_, _, _, _, _)
\* The quoted atoms of the text s from position i on.  Outside quotes a
\* quote character opens a quoted atom; inside, a backslash takes the next
\* character literally, two quote characters are one, and a single quote
\* character closes the atom, which an argument separator or a closing
\* parenthesis must follow.  A text that ends inside a quoted atom is a
\* syntax error.
ReadQuoted(s, i, inside, cur, atoms) ==
    IF i > Len(s) THEN [ok |-> ~inside, atoms |-> atoms]
    ELSE LET c == SubSeq(s, i, i)
             n == IF i < Len(s) THEN SubSeq(s, i + 1, i + 1) ELSE ""
         IN IF ~inside
            THEN ReadQuoted(s, i + 1, c = quote, "", atoms)
            ELSE IF c = backslash /\ n # ""
                 THEN ReadQuoted(s, i + 2, TRUE, cur \o n, atoms)
                 ELSE IF c = quote /\ n = quote
                      THEN ReadQuoted(s, i + 2, TRUE, cur \o quote, atoms)
                      ELSE IF c = quote
                           THEN IF n \in {",", ")"}
                                THEN ReadQuoted(s, i + 1, FALSE, "", Append(atoms, cur))
                                ELSE [ok |-> FALSE, atoms |-> atoms]
                           ELSE ReadQuoted(s, i + 1, TRUE, cur \o c, atoms)

\* the text before the first opening parenthesis: the predicate name
NameOf(s) ==
    LET open == CHOOSE i \in 1..(Len(s) + 1) :
                    /\ i = Len(s) + 1 \/ SubSeq(s, i, i) = "("
                    /\ \A j \in 1..(i - 1) : SubSeq(s, j, j) # "("
    IN SubSeq(s, 1, open - 1)

\* the term read from a text: whether it is well formed, its predicate
\* name and its quoted atoms
ReadTerm(s) ==
    LET r == ReadQuoted(s, 1, FALSE, "", <<>>)
    IN [ok |-> r.ok, name |-> NameOf(s), atoms |-> r.atoms]

\* query("assertz(fact)."): a PrologError for a text that cannot be read,
\* else the clause is added at the end and the answer is True
Query_assertz(base, fact) ==
    LET t == ReadTerm(fact)
    IN IF t.ok
       THEN [raised |-> FALSE, result |-> TRUE,
             kb |-> Append(base, [name |-> t.name, atoms |-> t.atoms])]
       ELSE [raised |-> TRUE, result |-> FALSE, kb |-> base]

IsLink(clause) == clause.name = "composes_contents" /\ Len(clause.atoms) = 2

RECURSIVE inconsistent_composition(_, _, _)
\* The solutions of inconsistent_composition(X): one per ContentsMetadata
\* id that composes_contents links from more than one distinct Metadata id.
inconsistent_composition(base, i, found) ==
    IF i > Len(base) THEN found
    ELSE IF /\ IsLink(base[i])
            /\ base[i].atoms[2] \notin Range(found)
            /\ \E j \in DOMAIN base :
                  /\ IsLink(base[j])
                  /\ base[j].atoms[2] = base[i].atoms[2]
                  /\ base[j].atoms[1] # base[i].atoms[1]
         THEN inconsistent_composition(base, i + 1, Append(found, base[i].atoms[2]))
         ELSE inconsistent_composition(base, i + 1, found)

\* query("inconsistent_composition(ConflictingContentsID)."): False for a
\* goal without solution, else one binding per solution; a PrologError
\* (unknown procedure) when composes_contents/2 has no clause and the
\* knowledge base does not declare it.
Query_inconsistent_composition(base, dynamic) ==
    LET solutions == inconsistent_composition(base, 1, <<>>)
    IN IF ~dynamic /\ ~\E j \in DOMAIN base : base[j].name = "composes_contents"
       THEN [raised |-> TRUE, result |-> <<"False">>]
       ELSE IF Len(solutions) = 0
            THEN [raised |-> FALSE, result |-> <<"False">>]
            ELSE [raised |-> FALSE, result |-> <<"bindings", solutions>>]

-----------------------------------------------------------------------------
(* PrologRepository *)

RECURSIVE insert_facts_Rollback(_, _, _)
\* insert_facts that retracts the facts it asserted when one fails
insert_facts_Rollback(base, fs, i) ==
    IF i > Len(fs) THEN [kb |-> base, result |-> TRUE, sent |-> Len(fs)]
    ELSE LET fact == IF Len(fs[i]) > 0 /\ SubSeq(fs[i], Len(fs[i]), Len(fs[i])) = "."
                     THEN SubSeq(fs[i], 1, Len(fs[i]) - 1)
                     ELSE fs[i]
             r == Query_assertz(base, fact)
         IN IF r.raised \/ ~r.result
            THEN [kb |-> SubSeq(base, 1, Len(base) - (i - 1)), result |-> FALSE,
                  sent |-> i]
            ELSE insert_facts_Rollback(r.kb, fs, i + 1)

RECURSIVE insert_facts(_, _, _)
\* PrologRepository.insert_facts, from the fact at position i on; sent is
\* the number of facts handed to the engine
insert_facts(base, fs, i) ==
    IF i > Len(fs) THEN [kb |-> base, result |-> TRUE, sent |-> Len(fs)]
    ELSE LET fact == IF Len(fs[i]) > 0 /\ SubSeq(fs[i], Len(fs[i]), Len(fs[i])) = "."
                     THEN SubSeq(fs[i], 1, Len(fs[i]) - 1)
                     ELSE fs[i]
             r == Query_assertz(base, fact)
         IN IF r.raised \/ ~r.result
            THEN [kb |-> r.kb, result |-> FALSE, sent |-> i]
            ELSE insert_facts(r.kb, fs, i + 1)

\* PrologRepository.check_composition_consistency: iterating over the
\* answer False raises a TypeError, which the method does not catch
check_composition_consistency(base, dynamic) ==
    LET r == Query_inconsistent_composition(base, dynamic)
    IN IF r.raised THEN [raised |-> "none", result |-> <<"ERROR">>]
       ELSE IF r.result[1] = "False"
            THEN [raised |-> "TypeError", result |-> <<>>]
            ELSE [raised |-> "none", result |-> r.result[2]]

\* A CustomClass tree with a child attribute and a child class
VesselTree ==
    MR_CustomClass("cc1", "Vessel",
        <<MR_Attribute("a1", "tonnage", IV(500), "int", "",
              <<MR_Attribute("a2", "unit", SV("t"), "str", "", <<>>)>>)>>,
        <<MR_CustomClass("cc2", "Engine", <<>>, <<>>)>>)

\* The fields of the aggregates converted: two Metadata roots that compose
\* one ContentsMetadata id, and a root that composes an id of its own
BodyInputs ==
    {[id |-> "A", contents_id |-> "C",
      source |-> MR_SourceMetadata("s1", "c1", "r1", NoneV, NoneV),
      abstract |-> "plain", keyword_ids |-> <<>>,
      geo |-> MR_GeoExtentDescription("Takeshima"),
      temp |-> MR_TemporalExtentInstant(DateTime(2)),
      root |-> None],
     [id |-> "B", contents_id |-> "C",
      source |-> MR_SourceMetadata("s2", "c1", "r1", SV("1950s"), SV("")),
      abstract |-> "it's", keyword_ids |-> <<"k1", "k2">>,
      geo |-> MR_GeoExtentPoint(FV(35), FV(139)),
      temp |-> MR_TemporalExtentBetaDistribution("Edo era", DateTime(1), DateTime(3),
                                                 FV(2), FV(5)),
      root |-> Some(VesselTree)],
     [id |-> "B", contents_id |-> "D",
      source |-> MR_SourceMetadata("s3", "c2", "r1", NoneV, SV("Oki")),
      abstract |-> "", keyword_ids |-> <<"k1">>,
      geo |-> MR_GeoExtentSurface("POLYGON((0 0, 0 1, 1 1, 0 0))"),
      temp |-> MR_TemporalExtentInstant(DateTime(1)),
      root |-> Some(MR_CustomClass("cc3", "Vessel", <<>>, <<>>))]}

MetadataInputs ==
    {MR_Metadata(b.id, DateTime(1), "jpn", "p1", b.source,
                 MR_ContentsMetadata(b.contents_id, b.abstract, "history",
                                     b.keyword_ids, b.geo, b.temp, b.root)) :
        b \in BodyInputs}

\* Fact lists written by hand, as in the docstring of insert_facts, with
\* the composes_contents links they state
DirectFacts ==
    {[facts |-> <<"composes_contents('A', 'C')",
                  "contents_attribute('C', abstract, 'it\\'s')">>,
      links |-> {<<"A", "C">>}],
     [facts |-> <<"composes_contents('B', 'C').">>,
      links |-> {<<"B", "C">>}],
     [facts |-> <<"composes_contents('B', 'D')", "metadata('it's')", "metadata('B')">>,
      links |-> {<<"B", "D">>}]}

\* repo.convert_metadata_to_facts(m)
ConvertMetadataToFacts(m) ==
    /\ pl_meta' = Some(m)
    /\ facts' = convert_metadata_to_facts(m)
    /\ pl_call' = [api |-> "convert_metadata_to_facts"]
    /\ UNCHANGED <<kb, kb_dynamic, composed, flattenVars, chromaVars, coerceVars, otherVars>>

\* repo.insert_facts(fs), fs stating the links
InsertFacts(fs, links) ==
    LET r == insert_facts(kb, fs, 1)
    IN /\ Len(r.kb) <= MaxClauses
       /\ kb' = r.kb
       /\ pl_call' = [api |-> "insert_facts", given |-> fs, result |-> r.result,
                      sent |-> r.sent, asserted |-> Len(r.kb) - Len(kb)]
       /\ composed' = composed \cup links
       /\ UNCHANGED <<pl_meta, facts, kb_dynamic, flattenVars, chromaVars, coerceVars, otherVars>>

\* repo.insert_facts(repo.convert_metadata_to_facts(m)) for the m last converted
InsertConvertedFacts ==
    /\ pl_meta # None
    /\ InsertFacts(facts, {<<pl_meta[1].id, pl_meta[1].contents.id>>})

\* repo.check_composition_consistency()
CheckCompositionConsistency ==
    LET r == check_composition_consistency(kb, kb_dynamic)
    IN /\ pl_call' = [api |-> "check_composition_consistency",
                      raised |-> r.raised, result |-> r.result]
       /\ UNCHANGED <<pl_meta, facts, kb, kb_dynamic, composed, flattenVars, chromaVars, coerceVars, otherVars>>

InitProlog ==
    /\ FlattenIdle
    /\ ChromaIdle
    /\ pl_meta = None
    /\ facts = <<>>
    /\ kb = <<>>
    /\ kb_dynamic \in BOOLEAN
    /\ pl_call = [api |-> "none"]
    /\ composed = {}
    /\ CoerceIdle
    /\ OtherIdle

NextProlog ==
    \/ \E m \in MetadataInputs : ConvertMetadataToFacts(m)
    \/ InsertConvertedFacts
    \/ \E d \in DirectFacts : InsertFacts(d.facts, d.links)
    \/ CheckCompositionConsistency

SpecProlog == InitProlog /\ [][NextProlog]_vars

-----------------------------------------------------------------------------
(* Properties of the PrologRepository *)

\* the ContentsMetadata ids that the links compose from two or more
\* distinct Metadata ids
SharedContents(links) ==
    {l[2] : l \in {x \in links : \E y \in links : y[2] = x[2] /\ y[1] # x[1]}}

\* C5: once the facts of some Metadata aggregates have been handed to
\* insert_facts, check_composition_consistency returns, without raising,
\* exactly the ContentsMetadata ids composed by two or more distinct
\* Metadata roots, each once: the empty list when every id has one root.
C5_CheckReportsSharedContents ==
    (pl_call.api = "check_composition_consistency" /\ composed # {}) =>
        /\ pl_call.raised = "none"
        /\ Range(pl_call.result) = SharedContents(composed)
        /\ Len(pl_call.result) = Cardinality(SharedContents(composed))

\* C7: every fact returned by convert_metadata_to_facts reads as a well
\* formed term whose quoted literals are, in order, the field values the
\* fact was written from.
C7_LiteralsAreEscaped ==
    pl_meta # None =>
        \A i \in DOMAIN facts :
            /\ ReadTerm(facts[i]).ok
            /\ ReadTerm(facts[i]).atoms = Literals(FactTerms(pl_meta[1])[i])

\* the fact vocabulary: predicate names with their arities
FactVocabulary ==
    {<<"metadata", 1>>, <<"metadata_attribute", 3>>, <<"metadata_contact", 2>>,
     <<"sourceMetadata", 1>>, <<"aggregates_source", 2>>, <<"has_citation", 2>>,
     <<"has_reference_system", 2>>, <<"source_attribute", 3>>,
     <<"contentsMetadata", 1>>, <<"composes_contents", 2>>,
     <<"contents_attribute", 3>>, <<"has_keyword", 2>>,
     <<"has_geographic_extent", 2>>, <<"geographic_extent_is_description", 2>>,
     <<"geographic_extent_is_point", 2>>, <<"geographic_extent_is_surface", 2>>,
     <<"has_temporal_extent", 2>>, <<"temporal_extent_is_instant", 2>>,
     <<"temporal_extent_is_beta_distribution", 1>>, <<"beta_dist_universe", 3>>,
     <<"beta_dist_params", 3>>, <<"beta_dist_description", 2>>,
     <<"custom_class", 2>>, <<"custom_class_attribute", 2>>,
     <<"attribute_value", 5>>, <<"attribute_child", 2>>,
     <<"custom_class_child", 2>>}

\* the predicate name of each returned fact, read from its text, with the
\* number of arguments the fact was written with
FactSignatures ==
    {<<NameOf(facts[i]), Len(FactTerms(pl_meta[1])[i].args)>> : i \in DOMAIN facts}

\* C8 as stated: every fact returned by convert_metadata_to_facts has a
\* predicate name and arity of the fact vocabulary.
C8_FactsUseTheVocabulary ==
    pl_meta # None => FactSignatures \subseteq FactVocabulary

\* C8: every fact returned by convert_metadata_to_facts has a predicate name
\* and a number of arguments of the fact vocabulary, or is an
\* aggregates_custom fact of two arguments or an attribute fact of one.
C8_FactsUseTheEmittedVocabulary ==
    pl_meta # None =>
        FactSignatures \subseteq
            FactVocabulary \cup {<<"aggregates_custom", 2>>, <<"attribute", 1>>}

C8_Witness ==
    /\ pl_meta # None
    /\ Truthy(pl_meta[1].contents.custom_class_root)
    /\ <<"attribute", 1>> \in FactSignatures
    /\ <<"aggregates_custom", 2>> \in FactSignatures
    /\ <<"attribute_child", 2>> \in FactSignatures
    /\ <<"custom_class_child", 2>> \in FactSignatures

\* C21: check_composition_consistency never raises to its caller, and every
\* element of the list it returns is the id of a ContentsMetadata that the
\* clauses of the fact base compose from two distinct Metadata ids; also
\* when the query of the rule engine fails.
C21_CheckReturnsOnlyViolatingIds ==
    pl_call.api = "check_composition_consistency" =>
        /\ pl_call.raised = "none"
        /\ Range(pl_call.result) \subseteq
              {kb[i].atoms[2] : i \in {j \in DOMAIN kb :
                 /\ IsLink(kb[j])
                 /\ \E k \in DOMAIN kb : /\ IsLink(kb[k])
                                         /\ kb[k].atoms[2] = kb[j].atoms[2]
                                         /\ kb[k].atoms[1] # kb[j].atoms[1]}}

\* the clause the rule engine holds for a fact once asserted
ClauseOf(fact) ==
    LET text == IF Len(fact) > 0 /\ SubSeq(fact, Len(fact), Len(fact)) = "."
                THEN SubSeq(fact, 1, Len(fact) - 1)
                ELSE fact
    IN [ok |-> ReadTerm(text).ok,
        clause |-> [name |-> ReadTerm(text).name, atoms |-> ReadTerm(text).atoms]]

\* C26: insert_facts hands the facts to the rule engine one at a time in
\* list order and returns True exactly when every fact was asserted; when
\* asserting the fact at a position fails it returns False, hands over no
\* fact after that position, and the facts before it stay asserted.
C26_InsertStopsAtFirstFailure ==
    [][pl_call'.api = "insert_facts" =>
         LET fs == pl_call'.given
             n == pl_call'.asserted
         IN /\ n \in 0..Len(fs)
            /\ kb' = kb \o [j \in 1..n |-> ClauseOf(fs[j]).clause]
            /\ \A j \in 1..n : ClauseOf(fs[j]).ok
            /\ pl_call'.result = (n = Len(fs))
            /\ pl_call'.result => pl_call'.sent = Len(fs)
            /\ ~pl_call'.result =>
                  /\ pl_call'.sent = n + 1
                  /\ ~ClauseOf(fs[n + 1]).ok]_vars

C26_Witness ==
    /\ pl_call.api = "insert_facts"
    /\ Len(pl_call.given) = 3
    /\ ~pl_call.result
    /\ pl_call.sent = 2 /\ pl_call.asserted = 1
    /\ Len(kb) = 2

RECURSIVE AttributesUnder(_)
\* the ids of an Attribute and of the attributes below it
AttributesUnder(attr) ==
    <<attr.id>> \o Concat([i \in DOMAIN attr.children |-> AttributesUnder(attr.children[i])])

RECURSIVE ClassNodes(_)
\* the ids of the CustomClass nodes of a tree
ClassNodes(cclass) ==
    <<cclass.id>> \o Concat([i \in DOMAIN cclass.children |-> ClassNodes(cclass.children[i])])

RECURSIVE ClassAttributes(_)
\* the ids of the Attributes of a tree, child attributes included
ClassAttributes(cclass) ==
    Concat([i \in DOMAIN cclass.attributes |-> AttributesUnder(cclass.attributes[i])])
    \o Concat([i \in DOMAIN cclass.children |-> ClassAttributes(cclass.children[i])])

RECURSIVE TopAttributes(_)
\* the ids of the Attributes held directly by the nodes of a tree
TopAttributes(cclass) ==
    [i \in DOMAIN cclass.attributes |-> cclass.attributes[i].id]
    \o Concat([i \in DOMAIN cclass.children |-> TopAttributes(cclass.children[i])])

\* the first literal of each fact of the given predicate, in list order
SubjectsOf(terms, name) ==
    LET of == SelectSeq(terms, LAMBDA t : t.name = name)
    IN [i \in DOMAIN of |-> Literals(of[i])[1]]

\* C27: the facts of a CustomClass tree hold exactly one attribute_value
\* fact per Attribute of the tree, exactly one custom_class fact per
\* CustomClass node of the tree and none for anything else, and one
\* attribute_child fact per pair of an attribute and a child attribute.
C27_OneFactPerNode ==
    (pl_meta # None /\ Truthy(pl_meta[1].contents.custom_class_root)) =>
        LET root == pl_meta[1].contents.custom_class_root[1]
            terms == convert_custom_class_to_facts(root)
            classes == SubjectsOf(terms, "custom_class")
            values == SubjectsOf(terms, "attribute_value")
        IN /\ Len(values) = Len(ClassAttributes(root))
           /\ Range(values) = Range(ClassAttributes(root))
           /\ Len(classes) = Len(ClassNodes(root))
           /\ Range(classes) = Range(ClassNodes(root))
           /\ Len(SubjectsOf(terms, "attribute_child"))
                 = Len(ClassAttributes(root)) - Len(TopAttributes(root))

-----------------------------------------------------------------------------
(* Properties of the temporal branch of to_searchable_metadata *)

TempTypeOf(kind) ==
    CASE kind = "TemporalExtentPeriod" -> "period"
      [] kind = "TemporalExtentString" -> "string"
      [] kind = "TemporalExtentNumber" -> "number"
      [] kind = "TemporalExtentBetaDistribution" -> "distribution"

TempVariantKeys(kind) ==
    CASE kind = "TemporalExtentPeriod" ->
             {"temp_period_from", "temp_period_expected", "temp_period_to"}
      [] kind = "TemporalExtentString" ->
             {"temp_str_from", "temp_str_expected", "temp_str_to"}
      [] kind = "TemporalExtentNumber" ->
             {"temp_num_from", "temp_num_expected", "temp_num_to"}
      [] kind = "TemporalExtentBetaDistribution" ->
             {"temp_dist_start", "temp_dist_expected", "temp_dist_end",
              "temp_dist_alpha", "temp_dist_beta"}

\* C11: for every temporal variant the flat map holds temp_type with the
\* variant's tag and, temp_desc aside, exactly the keys of that variant's
\* family: no temp_ key of another variant.
C11_TemporalVariantKeys ==
    (flat_meta # None /\ Truthy(contents.temporal_extent)) =>
        LET f == flat_meta[1]
            kind == contents.temporal_extent[1].kind
            temp_keys == {k \in DOMAIN f : HasPrefix(k, "temp_")}
        IN /\ "temp_type" \in temp_keys
           /\ f["temp_type"] = SV(TempTypeOf(kind))
           /\ temp_keys \ {"temp_type", "temp_desc"} = TempVariantKeys(kind)

C11_Witness ==
    /\ flat_meta # None
    /\ Truthy(contents.temporal_extent)
    /\ contents.temporal_extent[1].kind = "TemporalExtentBetaDistribution"
    /\ flat_meta[1]["temp_type"] = SV("distribution")
    /\ flat_meta[1]["temp_dist_alpha"] = FV(2)

\* C12 as stated: the flat map holds temp_desc with the variant's
\* description for every temporal extent, whatever the description's value,
\* the empty string included.
C12_DescriptionAlwaysEmitted ==
    (flat_meta # None /\ Truthy(contents.temporal_extent)) =>
        /\ "temp_desc" \in DOMAIN flat_meta[1]
        /\ flat_meta[1]["temp_desc"] = SV(contents.temporal_extent[1].description)

\* C12: for each of the four temporal variants the flat map holds temp_desc,
\* with the variant's description, exactly when the description is not
\* empty.
C12_DescriptionEmittedWhenNotEmpty ==
    (flat_meta # None /\ Truthy(contents.temporal_extent)) =>
        LET te == contents.temporal_extent[1]
        IN IF te.description # ""
           THEN /\ "temp_desc" \in DOMAIN flat_meta[1]
                /\ flat_meta[1]["temp_desc"] = SV(te.description)
           ELSE "temp_desc" \notin DOMAIN flat_meta[1]

C12_Witness ==
    /\ flat_meta # None
    /\ Truthy(contents.temporal_extent)
    /\ contents.temporal_extent[1].kind = "TemporalExtentString"
    /\ contents.temporal_extent[1].description = "Edo era"
    /\ flat_meta[1]["temp_desc"] = SV("Edo era")

-----------------------------------------------------------------------------
(* Properties of the basic fields of to_searchable_metadata *)

\* a field's value as the flat map is to hold it: None as the empty string
CopiedField(v) == IF v = NoneV THEN SV("") ELSE v

\* C13: the flat map holds id, title, reference, abstract and
\* topic_category with the field's value, None as the empty string;
\* keywords_str, the keyword ids joined with ","; and the key structured.
C13_BasicFieldsCopied ==
    flat_meta # None =>
        LET f == flat_meta[1]
        IN /\ {"id", "title", "reference", "abstract", "topic_category",
               "keywords_str", "structured"} \subseteq DOMAIN f
           /\ f["id"] = CopiedField(contents.id)
           /\ f["title"] = CopiedField(contents.title)
           /\ f["reference"] = CopiedField(contents.reference)
           /\ f["abstract"] = CopiedField(contents.abstract)
           /\ f["topic_category"] = CopiedField(contents.topic_category)
           /\ f["keywords_str"] = SV(JoinStr(contents.keyword_ids, ","))

-----------------------------------------------------------------------------
(* Properties of the flat keys of the custom-class tree *)

RECURSIVE ClassnamesTo(_, _)
\* the classnames from the root c to the node at path, root first
ClassnamesTo(c, path) ==
    <<c.classname>> \o (IF Len(path) = 0 THEN <<>>
                        ELSE ClassnamesTo(c.children[Head(path)], Tail(path)))

\* C14: the keys the tree adds to the flat map are, for every attribute a of
\* every node n, the classnames from the root to n joined with "/",
\* followed by "/" and a.key.
C14_KeyIsPathOfClassnames ==
    (flat_meta # None /\ Truthy(contents.custom_class_root)) =>
        LET root == contents.custom_class_root[1]
        IN CustomKeys(contents, flat_meta[1]) =
             UNION {{JoinStr(ClassnamesTo(root, p), "/") \o "/"
                        \o NodeAt(root, p).attributes[i].key :
                       i \in DOMAIN NodeAt(root, p).attributes} :
                    p \in Paths(root)}

C14_Witness ==
    /\ flat_meta # None
    /\ Truthy(contents.custom_class_root)
    /\ Len(contents.custom_class_root[1].children) = 1
    /\ Len(contents.custom_class_root[1].children[1].children) = 1
    /\ "Vessel/Engine/Engine/power" \in DOMAIN flat_meta[1]

-----------------------------------------------------------------------------
(* CustomClassGenerator (src/models/custom_class.py, repeated in            *)
(* src/core/class_generator.py): the coercion of attribute values.          *)
(* Beside the values above, <<"bool", b>> is a Python bool and <<"inf">>    *)
(* the float infinity.  A conversion's outcome is [exc |-> "none", value    *)
(* |-> v] or [exc |-> the exception raised].                                *)

Returned(v) == [exc |-> "none", value |-> v]
Raised(x) == [exc |-> x]

\* s.lower()
Lower(s) ==
    LET upper == "ABCDEFGHIJKLMNOPQRSTUVWXYZ"
        lower == "abcdefghijklmnopqrstuvwxyz"
        low(c) == IF \E i \in 1..26 : SubSeq(upper, i, i) = c
                  THEN LET i == CHOOSE j \in 1..26 : SubSeq(upper, j, j) = c
                       IN SubSeq(lower, i, i)
                  ELSE c
        RECURSIVE go(_)
        go(i) == IF i > Len(s) THEN "" ELSE low(SubSeq(s, i, i)) \o go(i + 1)
    IN go(1)

\* int(s) of a string: surrounding blanks, an optional sign, decimal digits
ParseInt(s) ==
    LET digits == "0123456789"
        isDigit(c) == \E i \in 1..10 : SubSeq(digits, i, i) = c
        digit(c) == (CHOOSE i \in 1..10 : SubSeq(digits, i, i) = c) - 1
        first == IF \E i \in 1..Len(s) : SubSeq(s, i, i) # " "
                 THEN CHOOSE i \in 1..Len(s) :
                        /\ SubSeq(s, i, i) # " "
                        /\ \A j \in 1..(i - 1) : SubSeq(s, j, j) = " "
                 ELSE Len(s) + 1
        last == IF first > Len(s) THEN Len(s)
                ELSE CHOOSE i \in 1..Len(s) :
                        /\ SubSeq(s, i, i) # " "
                        /\ \A j \in (i + 1)..Len(s) : SubSeq(s, j, j) = " "
        body == SubSeq(s, first, last)
        signed == Len(body) > 0 /\ SubSeq(body, 1, 1) \in {"+", "-"}
        num == IF signed THEN SubSeq(body, 2, Len(body)) ELSE body
        RECURSIVE val(_, _)
        val(i, acc) == IF i > Len(num) THEN acc
                       ELSE val(i + 1, 10 * acc + digit(SubSeq(num, i, i)))
    IN IF Len(num) > 0 /\ \A i \in 1..Len(num) : isDigit(SubSeq(num, i, i))
       THEN Returned(IF signed /\ SubSeq(body, 1, 1) = "-" THEN 0 - val(1, 0)
                     ELSE val(1, 0))
       ELSE Raised("ValueError")

\* int(value)
IntOf(value) ==
    CASE value[1] = "str" ->
             LET r == ParseInt(value[2])
             IN IF r.exc = "none" THEN Returned(IV(r.value)) ELSE r
      [] value[1] = "int" -> Returned(value)
      [] value[1] = "float" -> Returned(IV(value[2]))
      [] value[1] = "bool" -> Returned(IV(IF value[2] THEN 1 ELSE 0))
      [] value[1] = "inf" -> Raised("OverflowError")
      [] OTHER -> Raised("TypeError")

\* float(value); the strings of the model hold no fraction or exponent
FloatOf(value) ==
    CASE value[1] = "str" ->
             LET r == ParseInt(value[2])
             IN IF r.exc = "none" THEN Returned(FV(r.value)) ELSE r
      [] value[1] = "int" -> Returned(FV(value[2]))
      [] value[1] = "float" -> Returned(value)
      [] value[1] = "bool" -> Returned(FV(IF value[2] THEN 1 ELSE 0))
      [] value[1] = "inf" -> Returned(value)
      [] OTHER -> Raised("TypeError")

\* bool(value): Python truthiness
BoolOf(value) ==
    CASE value[1] = "str" -> value[2] # ""
      [] value[1] \in {"int", "float"} -> value[2] # 0
      [] value[1] = "bool" -> value[2]
      [] value[1] = "inf" -> TRUE
      [] OTHER -> FALSE

\* a coercion that applies Python truthiness to strings too
convert_value_by_type_Truthy(value, datatype) ==
    IF Lower(datatype) = "bool" THEN Returned(<<"bool", BoolOf(value)>>)
    ELSE Returned(value)

\* CustomClassGenerator._convert_value_by_type
convert_value_by_type(value, datatype) ==
    IF datatype = "" THEN Returned(value)
    ELSE LET dt == Lower(datatype)
             r == CASE dt = "int" -> IntOf(value)
                    [] dt = "float" -> FloatOf(value)
                    [] dt = "bool" ->
                         IF value[1] = "str"
                         THEN Returned(<<"bool", Lower(value[2]) \in
                                                   {"true", "1", "yes", "t"}>>)
                         ELSE Returned(<<"bool", BoolOf(value)>>)
                    [] dt = "str" -> Returned(SV(PyStr(value)))
                    [] OTHER -> Returned(value)
         IN IF r.exc \in {"ValueError", "TypeError"} THEN Returned(value) ELSE r

\* AddtionalAttribute(key, value, namespace, classname, datatype)
AddtionalAttribute(key, value, namespace, classname, datatype) ==
    [key |-> key, value |-> value, namespace |-> namespace,
     classname |-> classname, datatype |-> datatype]

\* SimpleNamespace objects: <<"ns", attributes>>, the attributes a function
\* from names to objects
Namespace(attrs) == <<"ns", attrs>>

RECURSIVE SetIn(_, _, _)
\* The try block of _setCustomObject for one attribute, from the object
\* target on: the namespaces named by names are created where missing and
\* entered, then the converted value is set under attr.key.  Setting an
\* attribute on an object that is no namespace raises AttributeError.
SetIn(target, names, attr) ==
    IF Len(names) = 0
    THEN LET c == convert_value_by_type(attr.value, attr.datatype)
         IN IF c.exc # "none" THEN [obj |-> target, exc |-> c.exc]
            ELSE IF target[1] # "ns" THEN [obj |-> target, exc |-> "AttributeError"]
            ELSE [obj |-> Namespace(Put(target[2], attr.key, c.value)),
                  exc |-> "none"]
    ELSE IF target[1] # "ns" THEN [obj |-> target, exc |-> "AttributeError"]
    ELSE LET n == Head(names)
             attrs == IF n \in DOMAIN target[2] THEN target[2]
                      ELSE Put(target[2], n, Namespace(<<>>))
             r == SetIn(attrs[n], Tail(names), attr)
         IN [obj |-> Namespace(Put(attrs, n, r.obj)), exc |-> r.exc]

RECURSIVE setCustomObject(_, _, _)
\* CustomClassGenerator._setCustomObject from the attribute at position i
\* on; acc holds the custom_object built, the number of messages printed
\* and the exception that left the method
setCustomObject(attributes, i, acc) ==
    IF i > Len(attributes) THEN acc
    ELSE IF attributes[i].key = "" THEN setCustomObject(attributes, i + 1, acc)
    ELSE LET attr == attributes[i]
             names == SelectSeq(<<attr.namespace, attr.classname>>,
                                LAMBDA n : n # "")
             r == SetIn(acc.obj, names, attr)
         IN IF r.exc = "none"
            THEN setCustomObject(attributes, i + 1, [acc EXCEPT !.obj = r.obj])
            ELSE IF r.exc \in {"AttributeError", "ValueError"}
                 THEN setCustomObject(attributes, i + 1,
                          [acc EXCEPT !.obj = r.obj, !.printed = @ + 1])
                 ELSE [acc EXCEPT !.obj = r.obj, !.exc = r.exc]

MaxAttributes == 2    \* attributes handed to _setCustomObject

CoerceValues ==
    {SV("250"), SV("abc"), SV("Yes"), SV("T"), SV("1"), SV("no"), SV(" -7 "),
     SV(""), IV(500), IV(0), FV(2), <<"bool", TRUE>>, NoneV, <<"inf">>}

Datatypes == {"", "int", "Int", "float", "bool", "BOOL", "str", "date"}

AttributeInputs ==
    {AddtionalAttribute("power", SV("250"), "", "", "int"),
     AddtionalAttribute("power", SV("abc"), "engine", "", "int"),
     AddtionalAttribute("running", SV("Yes"), "engine", "Engine", "bool"),
     AddtionalAttribute("engine", IV(500), "", "", ""),
     AddtionalAttribute("", SV("1"), "", "", "int"),
     AddtionalAttribute("range", <<"inf">>, "", "Engine", "int"),
     AddtionalAttribute("tonnage", SV("abc"), "", "", "float")}

\* generator._convert_value_by_type(value, datatype)
ConvertValueByType ==
    /\ gen_in.api = "_convert_value_by_type"
    /\ gen_out = None
    /\ gen_out' = Some(convert_value_by_type(gen_in.value, gen_in.datatype))
    /\ UNCHANGED <<gen_in, flattenVars, chromaVars, prologVars, otherVars>>

\* generator._setCustomObject(attributes)
SetCustomObject ==
    /\ gen_in.api = "_setCustomObject"
    /\ gen_out = None
    /\ gen_out' = Some(setCustomObject(gen_in.attributes, 1,
                          [obj |-> Namespace(<<>>), printed |-> 0, exc |-> "none"]))
    /\ UNCHANGED <<gen_in, flattenVars, chromaVars, prologVars, otherVars>>

InitCoerce ==
    /\ FlattenIdle
    /\ ChromaIdle
    /\ PrologIdle
    /\ OtherIdle
    /\ gen_in \in
         {[api |-> "_convert_value_by_type", value |-> v, datatype |-> d] :
             v \in CoerceValues, d \in Datatypes}
         \cup {[api |-> "_setCustomObject", attributes |-> a] :
                 a \in SeqsUpTo(AttributeInputs, MaxAttributes)}
    /\ gen_out = None

NextCoerce ==
    \/ ConvertValueByType
    \/ SetCustomObject

SpecCoerce == InitCoerce /\ [][NextCoerce]_vars

-----------------------------------------------------------------------------
(* Properties of the coercion *)

\* the value cannot be converted to the type the datatype tags
ConversionFails(value, datatype) ==
    \/ Lower(datatype) = "int" /\ IntOf(value).exc # "none"
    \/ Lower(datatype) = "float" /\ FloatOf(value).exc # "none"

\* the attributes of the list that are set and whose value cannot be converted
FailingAttributes(attributes) ==
    {i \in DOMAIN attributes :
        /\ attributes[i].key # ""
        /\ ConversionFails(attributes[i].value, attributes[i].datatype)}

\* C15: flattening stores each scalar attribute value interpreted per its
\* datatype tag: "250" tagged int is stored as the integer 250, and an
\* integer tagged int as that integer.
C15_FlattenStoresCoercedValues ==
    (/\ flat_meta # None
     /\ Truthy(contents.custom_class_root)
     /\ ~HasKeyCollision(contents.custom_class_root[1])) =>
        LET root == contents.custom_class_root[1]
        IN \A p \in Paths(root) : \A i \in DOMAIN NodeAt(root, p).attributes :
              LET a == NodeAt(root, p).attributes[i]
              IN IsScalar(a.value) =>
                   flat_meta[1][JoinStr(ClassnamesTo(root, p), "/") \o "/" \o a.key]
                     = convert_value_by_type(a.value, a.datatype).value

\* C16: coercion never raises: _convert_value_by_type returns, and returns
\* the original value when it cannot be converted; _setCustomObject
\* returns after all attributes, having emitted one diagnostic per
\* attribute whose value could not be converted.
C16_CoercionNeverRaises ==
    gen_out # None =>
        /\ gen_out[1].exc = "none"
        /\ gen_in.api = "_convert_value_by_type" =>
             (ConversionFails(gen_in.value, gen_in.datatype) =>
                  gen_out[1].value = gen_in.value)
        /\ gen_in.api = "_setCustomObject" =>
             gen_out[1].printed >= Cardinality(FailingAttributes(gen_in.attributes))

\* C17 as stated: with datatype bool in any letter case the result is true
\* exactly when the value is, compared case-insensitively, one of "true",
\* "1", "yes", "t", and false for every other value; with an empty or
\* unrecognised datatype the value is returned unchanged.
C17_BoolByMatchForEveryValue ==
    (gen_out # None /\ gen_in.api = "_convert_value_by_type") =>
        /\ Lower(gen_in.datatype) = "bool" =>
             gen_out[1] = Returned(<<"bool",
                 gen_in.value[1] = "str"
                   /\ Lower(gen_in.value[2]) \in {"true", "1", "yes", "t"}>>)
        /\ Lower(gen_in.datatype) \notin {"int", "float", "bool", "str"} =>
             gen_out[1] = Returned(gen_in.value)

\* C17: with datatype bool in any letter case, a string is coerced to true
\* exactly when it is, compared case-insensitively, one of "true", "1",
\* "yes", "t", and a value that is not a string to its truthiness; with an
\* empty or unrecognised datatype the value is returned unchanged.
C17_BoolByMatchForStrings ==
    (gen_out # None /\ gen_in.api = "_convert_value_by_type") =>
        /\ Lower(gen_in.datatype) = "bool" =>
             gen_out[1] = Returned(<<"bool",
                 IF gen_in.value[1] = "str"
                 THEN Lower(gen_in.value[2]) \in {"true", "1", "yes", "t"}
                 ELSE BoolOf(gen_in.value)>>)
        /\ Lower(gen_in.datatype) \notin {"int", "float", "bool", "str"} =>
             gen_out[1] = Returned(gen_in.value)

C17_Witness ==
    /\ gen_in.api = "_convert_value_by_type"
    /\ gen_in.value = SV("Yes")
    /\ gen_in.datatype = "BOOL"
    /\ gen_out = Some(Returned(<<"bool", TRUE>>))

-----------------------------------------------------------------------------
(* Properties of the WKT texts of GeoExtentPoint and GeoExtentBoundingbox *)

RECURSIVE SplitOn(_, _, _)
\* the pieces of the text s between occurrences of sep, after the piece cur
\* read so far
SplitOn(s, sep, cur) ==
    IF Len(s) = 0 THEN <<cur>>
    ELSE IF Len(s) >= Len(sep) /\ SubSeq(s, 1, Len(sep)) = sep
         THEN <<cur>> \o SplitOn(SubSeq(s, Len(sep) + 1, Len(s)), sep, "")
         ELSE SplitOn(SubSeq(s, 2, Len(s)), sep, cur \o SubSeq(s, 1, 1))

\* the vertices written between an opening and a closing text, each the
\* list of its numbers as written; <<>> for a text of another form
VerticesOf(wkt, opening, closing) ==
    IF /\ Len(wkt) >= Len(opening) + Len(closing)
       /\ SubSeq(wkt, 1, Len(opening)) = opening
       /\ SubSeq(wkt, Len(wkt) - Len(closing) + 1, Len(wkt)) = closing
    THEN LET inner == SubSeq(wkt, Len(opening) + 1, Len(wkt) - Len(closing))
             parts == SplitOn(inner, ", ", "")
         IN [i \in DOMAIN parts |-> SplitOn(parts[i], " ", "")]
    ELSE <<>>

\* C25: the WKT of a bounding box is a closed rectangular ring: five
\* vertices "x y", x the west or east longitude and y the north or south
\* latitude, the first four being the four corners, each once, every edge
\* along one axis, the fifth vertex the first again; the WKT of a point
\* writes the longitude before the latitude.
C25_CanonicalWkt ==
    (flat_meta # None /\ Truthy(contents.geographic_extent)) =>
        LET ge == contents.geographic_extent[1]
            wkt == flat_meta[1]["geo_wkt"][2]
        IN /\ ge.kind = "GeoExtentBoundingbox" =>
                LET ring == VerticesOf(wkt, "POLYGON((", "))")
                IN /\ Len(ring) = 5
                   /\ \A i \in 1..5 : Len(ring[i]) = 2
                   /\ {ring[i] : i \in 1..4} =
                         {<<x, y>> : x \in {NumStr(ge.west), NumStr(ge.east)},
                                     y \in {NumStr(ge.north), NumStr(ge.south)}}
                   /\ \A i \in 1..4 :
                         (ring[i][1] = ring[i + 1][1]) # (ring[i][2] = ring[i + 1][2])
                   /\ ring[5] = ring[1]
           /\ ge.kind = "GeoExtentPoint" =>
                VerticesOf(wkt, "POINT(", ")") = <<<<NumStr(ge.lon), NumStr(ge.lat)>>>>

C25_Witness ==
    /\ flat_meta # None
    /\ contents.geographic_extent = Some(GeoExtentBoundingbox(-10, -20, -30, 5))
    /\ flat_meta[1]["geo_wkt"] =
          SV("POLYGON((-20 -10, 5 -10, 5 -30, -20 -30, -20 -10))")

-----------------------------------------------------------------------------
(* Further properties of the custom-class tree and of its flattening *)

\* C24: no two attributes of one attributes list have the same key, and no
\* two child classes of one CustomClass have the same classname.
C24_SiblingsAreUnique ==
    Truthy(contents.custom_class_root) =>
        \A p \in Paths(contents.custom_class_root[1]) :
            LET node == NodeAt(contents.custom_class_root[1], p)
            IN /\ \A i, j \in DOMAIN node.attributes :
                     node.attributes[i].key = node.attributes[j].key => i = j
               /\ \A i, j \in DOMAIN node.children :
                     node.children[i].classname = node.children[j].classname => i = j

\* the flat map of the same ContentsMetadata without its custom-class tree
WithoutTree(cm) == to_searchable_metadata([cm EXCEPT !.custom_class_root = None])

\* C28 as stated: with a custom-class tree, every key of the flat map that
\* the map of the same object without the tree holds (id, reference,
\* abstract, topic_category, keywords_str, structured, geo_*, temp_*) has
\* the value it has there.
C28_EarlierKeysAsWithoutTree ==
    (flat_meta # None /\ Truthy(contents.custom_class_root)) =>
        \A k \in DOMAIN WithoutTree(contents) :
            k \in DOMAIN flat_meta[1] /\ flat_meta[1][k] = WithoutTree(contents)[k]

\* C28: flattening the tree changes and removes no key written before it;
\* so every such key but "structured" has the value it has without the
\* tree, and "structured" is the JSON text of the whole object, tree
\* included.
C28_EarlierKeysKept ==
    (flat_meta # None /\ Truthy(contents.custom_class_root)) =>
        LET earlier == ContentsTemporalFields(
                           ContentsGeoFields(ContentsBaseFields(contents),
                                             contents.geographic_extent),
                           contents.temporal_extent)
        IN /\ \A k \in DOMAIN earlier :
                 k \in DOMAIN flat_meta[1] /\ flat_meta[1][k] = earlier[k]
           /\ DOMAIN earlier = DOMAIN WithoutTree(contents)
           /\ \A k \in (DOMAIN earlier) \ {"structured"} :
                 flat_meta[1][k] = WithoutTree(contents)[k]
           /\ flat_meta[1]["structured"] = <<"json", ContentsMetadata_to_dict(contents)>>

C28_Witness ==
    /\ flat_meta # None
    /\ Truthy(contents.custom_class_root)
    /\ "Vessel/Engine/power" \in DOMAIN flat_meta[1]
    /\ "Vessel/tonnage" \in DOMAIN flat_meta[1]
    /\ flat_meta[1]["structured"] # WithoutTree(contents)["structured"]
    /\ flat_meta[1]["geo_lat"] = WithoutTree(contents)["geo_lat"]

-----------------------------------------------------------------------------
(* Metadata roots (metadata_schema.py).  A Python list is an object: lists *)
(* holds the list objects by identity, and a root holds the positions of   *)
(* its two lists in it, so that a list handed to two constructor           *)
(* parameters is one object with two holders.  SourceMetadata and          *)
(* ContentsMetadata objects are named by their identity.                   *)

MaxRoots == 2      \* Metadata objects constructed
MaxListLen == 2    \* elements of one list

SourceObjects == {"s1"}
ContentsObjects == {"c1", "c2"}

\* The list arguments of a constructor call: None, a list the caller makes
\* for this call, or a list object made earlier that holds only elements of
\* the parameter's type
ListArguments(elements) ==
    {<<"None">>}
    \cup {<<"list", l>> : l \in {<<>>} \cup {<<x>> : x \in elements}}
    \cup {<<"held", i>> : i \in {j \in DOMAIN lists : Range(lists[j]) \subseteq elements}}

\* Metadata(contact_id, sources, contents): id, language and datastamp take
\* their defaults; contents_ is the contents argument.  same_list: the
\* caller hands the list object it gives as sources as contents too.
NewMetadata(contact_id, sources, contents_, same_list) ==
    LET made == IF sources[1] = "held" THEN lists
                ELSE Append(lists, IF sources[1] = "list" THEN sources[2] ELSE <<>>)
        self_sources == IF sources[1] = "held" THEN sources[2] ELSE Len(made)
        made2 == IF same_list \/ contents_[1] = "held" THEN made
                 ELSE Append(made, IF contents_[1] = "list" THEN contents_[2] ELSE <<>>)
        self_contents == IF same_list THEN self_sources
                         ELSE IF contents_[1] = "held" THEN contents_[2] ELSE Len(made2)
    IN /\ Len(roots) < MaxRoots
       /\ same_list => (sources[1] # "None" /\ contents_ = sources
                          /\ Range(made[self_sources]) = {})
       /\ lists' = made2
       /\ roots' = Append(roots,
                      [id |-> generate_short_id("meta", <<Len(roots) + 1>>),
                       sources |-> self_sources, contents |-> self_contents,
                       contact_id |-> contact_id, language |-> "jpn",
                       datastamp |-> DateTime(Len(roots) + 1)])
       /\ expected' = Append(expected, [sources |-> made2[self_sources],
                                        contents |-> made2[self_contents]])
       /\ UNCHANGED <<flattenVars, chromaVars, prologVars, coerceVars, keyVars, serverVars>>

\* roots[r].add_source(s)
AddSource(r, s) ==
    /\ r \in DOMAIN roots
    /\ Len(lists[roots[r].sources]) < MaxListLen
    /\ lists' = [lists EXCEPT ![roots[r].sources] = Append(@, s)]
    /\ expected' = [expected EXCEPT ![r].sources = Append(@, s)]
    /\ UNCHANGED <<roots, flattenVars, chromaVars, prologVars, coerceVars, keyVars, serverVars>>

\* roots[r].add_contents(c)
AddContents(r, c) ==
    /\ r \in DOMAIN roots
    /\ Len(lists[roots[r].contents]) < MaxListLen
    /\ lists' = [lists EXCEPT ![roots[r].contents] = Append(@, c)]
    /\ expected' = [expected EXCEPT ![r].contents = Append(@, c)]
    /\ UNCHANGED <<roots, flattenVars, chromaVars, prologVars, coerceVars, keyVars, serverVars>>

\* no Metadata constructed, an ApiKeyManager just constructed, the server
\* just imported
InitObjects ==
    /\ FlattenIdle
    /\ ChromaIdle
    /\ PrologIdle
    /\ CoerceIdle
    /\ OtherIdle

NextRoots ==
    \/ \E sources \in ListArguments(SourceObjects),
          contents_ \in ListArguments(ContentsObjects), same_list \in BOOLEAN :
          NewMetadata("p1", sources, contents_, same_list)
    \/ \E r \in 1..MaxRoots, s \in SourceObjects : AddSource(r, s)
    \/ \E r \in 1..MaxRoots, c \in ContentsObjects : AddContents(r, c)

SpecRoots == InitObjects /\ [][NextRoots]_vars

\* C22: Metadata is append-only: after any sequence of constructions,
\* add_source and add_contents calls, each list of each root holds the
\* elements of the constructor's list followed by the elements added to it
\* through that root, in call order; an add call changes nothing else of
\* any root.
C22_AppendOnly ==
    \A r \in DOMAIN roots :
        /\ lists[roots[r].sources] = expected[r].sources
        /\ lists[roots[r].contents] = expected[r].contents

\* C23: every ContentsMetadata object is in the contents list of at most
\* one Metadata root.
C23_ExclusiveOwnership ==
    \A c \in ContentsObjects :
        Cardinality({r \in DOMAIN roots : c \in Range(lists[roots[r].contents])}) <= 1

-----------------------------------------------------------------------------
(* ApiKeyManager (src/core/api_client.py).  ApiClient objects are named by *)
(* their identity; the same object may be added twice.                     *)

MaxClients == 3    \* clients added to the manager

ClientObjects == {"gemini", "llamacpp"}

\* what a call leaves in key_call
Outcome(api, raised, returned) == [api |-> api, raised |-> raised, returned |-> returned]

\* the latest MaxClients elements of a list with one more element
Latest(seq, x) ==
    IF Len(seq) < MaxClients THEN Append(seq, x) ELSE Append(Tail(seq), x)

\* manager.add_client(api_client)
AddClient(api_client) ==
    /\ Len(clients) < MaxClients
    /\ clients' = Append(clients, api_client)
    /\ key_call' = Outcome("add_client", "none", None)
    /\ streak' = <<>>
    /\ UNCHANGED <<current_index, flattenVars, chromaVars, prologVars, coerceVars, rootVars, serverVars>>

\* get_next_client that steps current_index without wrapping it
GetNextClient_NoWrap ==
    /\ IF Len(clients) = 0
       THEN /\ key_call' = Outcome("get_next_client", "ValueError", None)
            /\ UNCHANGED <<current_index, streak>>
       ELSE /\ current_index < Len(clients)
            /\ key_call' = Outcome("get_next_client", "none", Some(clients[current_index + 1]))
            /\ current_index' = current_index + 1
            /\ streak' = Latest(streak, clients[current_index + 1])
    /\ UNCHANGED <<clients, flattenVars, chromaVars, prologVars, coerceVars, rootVars, serverVars>>

\* manager.get_next_client(); list positions are counted from 0 in Python
\* and from 1 here
GetNextClient ==
    /\ IF Len(clients) = 0
       THEN /\ key_call' = Outcome("get_next_client", "ValueError", None)
            /\ UNCHANGED <<current_index, streak>>
       ELSE LET client == clients[current_index + 1]
            IN /\ key_call' = Outcome("get_next_client", "none", Some(client))
               /\ current_index' = (current_index + 1) % Len(clients)
               /\ streak' = Latest(streak, client)
    /\ UNCHANGED <<clients, flattenVars, chromaVars, prologVars, coerceVars, rootVars, serverVars>>

\* manager.get_current_client()
GetCurrentClient ==
    /\ key_call' = IF Len(clients) = 0
                   THEN Outcome("get_current_client", "ValueError", None)
                   ELSE Outcome("get_current_client", "none", Some(clients[current_index + 1]))
    /\ UNCHANGED <<clients, current_index, streak, flattenVars, chromaVars, prologVars, coerceVars, rootVars, serverVars>>

\* manager.set_client_by_index(index)
SetClientByIndex(index) ==
    /\ IF ~(0 <= index /\ index < Len(clients))
       THEN /\ key_call' = Outcome("set_client_by_index", "IndexError", None)
            /\ UNCHANGED <<current_index, streak>>
       ELSE /\ current_index' = index
            /\ key_call' = Outcome("set_client_by_index", "none", Some(clients[index + 1]))
            /\ streak' = <<>>
    /\ UNCHANGED <<clients, flattenVars, chromaVars, prologVars, coerceVars, rootVars, serverVars>>

NextKeys ==
    \/ \E c \in ClientObjects : AddClient(c)
    \/ GetNextClient
    \/ GetCurrentClient
    \/ \E index \in (0 - 1)..MaxClients : SetClientByIndex(index)

SpecKeys == InitObjects /\ [][NextKeys]_vars

\* the clients list read cyclically from position k (counted from 0)
CyclicFrom(k) ==
    [j \in 1..Len(clients) |-> clients[((k + j - 1) % Len(clients)) + 1]]

\* C29: with n >= 1 clients current_index is within 0..n-1 after any
\* calls, and the latest n get_next_client calls made in a row (no
\* add_client or set_client_by_index between them) returned the n clients
\* each once, in the cyclic order of the list; get_next_client on a
\* manager without client raises and changes nothing.
C29_RoundRobin ==
    /\ [](Len(clients) >= 1 => current_index \in 0..(Len(clients) - 1))
    /\ []((Len(clients) >= 1 /\ Len(streak) >= Len(clients)) =>
            \E k \in 0..(Len(clients) - 1) :
                SubSeq(streak, Len(streak) - Len(clients) + 1, Len(streak)) = CyclicFrom(k))
    /\ [][(key_call'.api = "get_next_client" /\ Len(clients) = 0) =>
            /\ key_call'.raised = "ValueError"
            /\ UNCHANGED <<clients, current_index>>]_vars

C29_Witness ==
    /\ clients = <<"gemini", "llamacpp", "gemini">>
    /\ streak = <<"llamacpp", "gemini", "gemini">>
    /\ current_index = 1
    /\ key_call = Outcome("get_next_client", "none", Some("gemini"))

-----------------------------------------------------------------------------
(* The MCP server (src/core/mcp/server.py).  GENERATORS, a dict, is the    *)
(* list of its items in insertion order; a generator is named by its       *)
(* class.  Both handlers are plain functions, which the framework runs in  *)
(* worker threads: http[t] is the request thread t works on or has         *)
(* answered, todo the configs its loop has not reached and body the        *)
(* response once it has returned.                                          *)

MaxConfigs == 2    \* configs of one /configure request

\* sub in s
Contains(s, sub) ==
    \E i \in 1..(Len(s) - Len(sub) + 1) : SubSeq(s, i, i + Len(sub) - 1) = sub

\* not api_key or api_key.isspace()
Blank(text) == text = "" \/ text = " "

GeneratorConfig(generator_name, client_type, api_key, api_url) ==
    [generator_name |-> generator_name, client_type |-> client_type,
     model_name |-> "m", api_key |-> api_key, api_url |-> api_url]

ConfigInputs ==
    {GeneratorConfig("gemini_text", "gemini", "k", ""),
     GeneratorConfig("gemini_text", "gemini", " ", ""),
     GeneratorConfig("speech_gemini", "gemini", "k", ""),
     GeneratorConfig("gemini_image", "gemini", "k", ""),
     GeneratorConfig("gemini_text", "llamacpp", "k", "http://localhost"),
     GeneratorConfig("llama", "llamacpp", "k", ""),
     GeneratorConfig("llama", "openai", "k", "")}

\* d[name] = generator on a dict: a new key goes to the end, a key the dict
\* holds keeps its place
SetItem(d, name, generator) ==
    IF \E i \in DOMAIN d : d[i].name = name
    THEN [i \in DOMAIN d |-> IF d[i].name = name
                             THEN [name |-> name, generator |-> generator] ELSE d[i]]
    ELSE Append(d, [name |-> name, generator |-> generator])

\* list(d.keys())
Keys(d) == [i \in DOMAIN d |-> d[i].name]

\* One pass of the loop over request.configs, on the dict the global names
\* when the pass runs.  A client constructor raises ValueError for a blank
\* api_key (and LlamaCppApiClient for a blank api_url); the except clause
\* prints it and the loop goes on.
Register(registry, config) ==
    IF config.client_type = "gemini" /\ ~Blank(config.api_key)
    THEN IF Contains(config.generator_name, "text")
         THEN SetItem(registry, config.generator_name, "GeminiTextGenerator")
         ELSE IF Contains(config.generator_name, "speech")
              THEN SetItem(registry, config.generator_name, "GeminiSpeechGenerator")
              ELSE registry
    ELSE IF /\ config.client_type = "llamacpp"
            /\ ~Blank(config.api_key) /\ ~Blank(config.api_url)
         THEN SetItem(registry, config.generator_name, "LlamaCppTextGenerator")
         ELSE registry

\* thread t has no request in hand
Free(t) == http[t].api = "none" \/ (http[t].api # "none" /\ http[t].body # None)

\* POST /configure reaches thread t: GENERATORS = {}
ConfigureGenerators(t, configs) ==
    /\ Free(t)
    /\ GENERATORS' = <<>>
    /\ http' = [http EXCEPT ![t] = [api |-> "/configure", configs |-> configs,
                                    todo |-> configs, body |-> None]]
    /\ UNCHANGED <<flattenVars, chromaVars, prologVars, coerceVars, rootVars, keyVars>>

\* the next pass of thread t's loop
RegisterNext(t) ==
    /\ http[t].api = "/configure"
    /\ http[t].body = None
    /\ http[t].todo # <<>>
    /\ GENERATORS' = Register(GENERATORS, Head(http[t].todo))
    /\ http' = [http EXCEPT ![t].todo = Tail(@)]
    /\ UNCHANGED <<flattenVars, chromaVars, prologVars, coerceVars, rootVars, keyVars>>

\* thread t's loop is over: the response
ConfigureReturn(t) ==
    /\ http[t].api = "/configure"
    /\ http[t].body = None
    /\ http[t].todo = <<>>
    /\ http' = [http EXCEPT ![t].body =
                   Some([message |-> "Configuration successful.",
                         configured_generators |-> Keys(GENERATORS)])]
    /\ UNCHANGED <<GENERATORS, flattenVars, chromaVars, prologVars, coerceVars, rootVars, keyVars>>

\* GET /health, answered by thread t
HealthCheck(t) ==
    /\ Free(t)
    /\ http' = [http EXCEPT ![t] =
                   [api |-> "/health",
                    body |-> Some([status |-> "ok", available_models |-> Keys(GENERATORS)])]]
    /\ UNCHANGED <<GENERATORS, flattenVars, chromaVars, prologVars, coerceVars, rootVars, keyVars>>

NextServer ==
    \/ \E t \in Threads, configs \in SeqsUpTo(ConfigInputs, MaxConfigs) : ConfigureGenerators(t, configs)
    \/ \E t \in Threads : RegisterNext(t)
    \/ \E t \in Threads : ConfigureReturn(t)
    \/ \E t \in Threads : HealthCheck(t)

SpecServer == InitObjects /\ [][NextServer]_vars

\* thread t answers its /configure request in this step
Completes(t) == http[t].api = "/configure" /\ http[t].body = None /\ http'[t].body # None

\* C30: when a /configure request completes the registry holds only names
\* of that request's configs, and the configured_generators of the
\* response are the registry's keys; a /health request reports the keys
\* the registry has when it is answered, the same ones while no handler
\* touches the registry in between.
C30_RegistryRebuilt ==
    /\ [][\A t \in Threads : Completes(t) =>
            /\ Range(Keys(GENERATORS')) \subseteq
                  {http[t].configs[i].generator_name : i \in DOMAIN http[t].configs}
            /\ http'[t].body[1].configured_generators = Keys(GENERATORS')]_vars
    /\ [][\A u \in Threads : (http[u] # http'[u] /\ http'[u].api = "/health") =>
            http'[u].body[1].available_models = Keys(GENERATORS')]_vars

====
